---- MODULE Spec2Model ----
(***************************************************************************)
(* Model of the data-aggregation engine and its scheduling harness:        *)
(*   - External::get_number_of_token_holders   (SpecHolders,               *)
(*     SpecHoldersAny)                                                     *)
(*   - the windowed aggregations of External   (SpecAgg, FairSpecAgg)      *)
(*   - Scheduler::run_task / spawn_tasks       (Spec, SpecClock)           *)
(*   - the update_* routines of the scheduler  (SpecRoutine)               *)
(*   - the price oracle and total value locked (SpecPrice, SpecTvl)        *)
(*   - calculate_market_cap's max supply       (SpecMaxSupply)             *)
(*   - the page tasks of a trading-volume batch (SpecAcc)                  *)
(*   - the attribute store and its value codec (SpecStore, SpecCodec,      *)
(*     SpecUpsertText, SpecUpdate)                                         *)
(* Each sub-model has its own variables; a specification leaves the        *)
(* variables of the other sub-models unchanged.                            *)
(***************************************************************************)
EXTENDS Integers, Sequences, FiniteSets, TLC

VARIABLES
    \* ---- get_number_of_token_holders
    H,          \* number of holders of the static remote collection
    left,       \* `left`
    right,      \* `right`
    segment,    \* `segment` of the last round that issued probes (0: none yet)
    probes,     \* number of query_coin_balances calls issued so far
    hfault,     \* the fault one probe of the call suffered, "none" so far
    hpc,        \* "loop" | "done"
    hret,       \* the value returned: [ok, value, how] or [ok |-> FALSE, err]
    \* ---- windowed aggregations
    akind,      \* "volume" | "daily" | "weekly" | "fees"
    asrc,       \* the remote collection, newest record first
    aoffset,    \* `offset`: records requested so far
    aparity,    \* parity of the number of batches issued so far
    afound,     \* `found_old_activity` / `found_old_transaction`
    ausers,     \* `active_users`
    avol,       \* `coin_volumes` / `total_coin_swapped`: token -> raw amount
    afailed,    \* TRUE once the fetch of some page has failed
    apc,        \* "run" | "done"
    aret,       \* the value returned to the caller
    areq,       \* the offsets requested so far, in dispatch order
    \* ---- scheduler
    spawned,    \* number of jobs spawn_tasks has started
    jpc,        \* per job: "unspawned" | "idle" | "running" | "dead"
    jcalls,     \* per job: invocations of its update routine in progress
    started,    \* ticks started so far, over all jobs
    attrs,      \* project_attribute rows of the tracked project: <<key, value>>
    mcall,      \* the last calculate_market_cap call: its inputs and outcome
    wlog,       \* per key: the job kinds that issued an upsert of it
    \* ---- get_price_and_decimals
    ptoken,     \* `token`
    ldecimals,  \* ledger: the decimals of the token's coin_infos row, if any
    lpools,     \* ledger: per stablecoin, the pool resource pairing the token
    ppc,        \* "start" | "decimals" | "probes" | "done"
    pdecimals,  \* `decimals`
    pbal,       \* per stablecoin, the get_balances call: result and queries
    pcalls,     \* number of remote calls issued so far
    pret,       \* the value returned
    \* ---- get_total_value_locked
    tres,       \* ledger: per pool, its TokenPairReserve resource
    treserves,  \* `reserves`: token -> summed reserve
    touts,      \* per token of the map, the outcome of its task
    tpc,        \* "fetch" | "tasks" | "sum" | "done"
    tret,       \* the value returned
    \* ---- attribute store
    btable,     \* project_attribute rows of one project: <<key, value>>
    blast,      \* per key, the successful update_project_attribute calls
    pattrs,     \* `attributes` of an in-memory Project: <<key, value>> entries
    plast,      \* per key, the set_attribute calls
    bcalls,     \* number of calls issued so far
    \* ---- stored attribute values
    dval,       \* the attribute value handed to create_project
    dtext,      \* column `value` of its row
    dtype,      \* column `value_type` of its row
    dback,      \* the value get_project_attributes reads back
    dpc,        \* "new" | "stored" | "read"
    \* ---- scheduler in time
    now,        \* seconds since spawn_tasks was called
    wake,       \* when the sleep of spawn_tasks ends
    cspawned,   \* number of jobs spawn_tasks has started
    due,        \* per job: the deadline of its next interval tick
    cst,        \* per job: "unspawned" | "waiting" | "running" | "hung" | "dead"
    fin,        \* per job: when its running update routine returns
    first,      \* per job: the time of its first tick, NoTime before
    cbad,       \* per job: "none" | "err" | "panic" | "hang"
    \* ---- one update_* invocation
    ukind,      \* the job kind
    ubefore,    \* project_attribute rows before the invocation
    uafter,     \* project_attribute rows after it
    uout,       \* "none" | "Ok" | "Err" | "Panic": the aggregation routine's outcome
    \* ---- max supply in calculate_market_cap
    xval,       \* the value stored under token_max_supply, if any
    xprice,     \* `price`
    xfd,        \* `fully_diluted`
    xpc,        \* "start" | "done"
    \* ---- page tasks of a trading-volume batch
    vpage,      \* per task: the coin activities its query returned
    vpc,        \* per task: "fetch" | "scan" | "locked" | "done"
    vidx,       \* per task: the next activity to add
    vtmp,       \* per task: the entry read under the lock
    vlock,      \* the task holding the lock on coin_volumes, 0 when free
    vacc,       \* `coin_volumes`: coin type -> amount
    \* ---- update_project_handler and a job's upsert
    qkey,       \* the key the job writes
    qjob,       \* the value the job writes
    qbody,      \* "none" | "some": whether the request body has attributes
    qtable,     \* project_attribute rows of the project: <<key, value>>
    qsent,      \* the rows the requester read before composing the body
    qproject,   \* `project.attributes` of the handler
    qhpc,       \* handler: "start" | "read" | "done"
    qjpc        \* job: "start" | "done"

hvars == <<H, left, right, segment, probes, hfault, hpc, hret>>

avars ==
    <<akind, asrc, aoffset, aparity, afound, ausers, avol, afailed, apc, aret,
      areq>>

svars == <<spawned, jpc, jcalls, started, attrs, mcall, wlog>>

pvars == <<ptoken, ldecimals, lpools, ppc, pdecimals, pbal, pcalls, pret>>

tvars == <<tres, treserves, touts, tpc, tret>>

bvars == <<btable, blast, pattrs, plast, bcalls>>

dvars == <<dval, dtext, dtype, dback, dpc>>

cvars == <<now, wake, cspawned, due, cst, fin, first, cbad>>

uvars == <<ukind, ubefore, uafter, uout>>

xvars == <<xval, xprice, xfd, xpc>>

vvars == <<vpage, vpc, vidx, vtmp, vlock, vacc>>

qvars == <<qkey, qjob, qbody, qtable, qsent, qproject, qhpc, qjpc>>

vars == <<H, left, right, segment, probes, hfault, hpc, hret,
          akind, asrc, aoffset, aparity, afound, ausers, avol, afailed, apc, aret,
          areq,
          spawned, jpc, jcalls, started, attrs, mcall, wlog,
          ptoken, ldecimals, lpools, ppc, pdecimals, pbal, pcalls, pret,
          tres, treserves, touts, tpc, tret,
          btable, blast, pattrs, plast, bcalls,
          dval, dtext, dtype, dback, dpc,
          now, wake, cspawned, due, cst, fin, first, cbad,
          ukind, ubefore, uafter, uout,
          xval, xprice, xfd, xpc,
          vpage, vpc, vidx, vtmp, vlock, vacc,
          qkey, qjob, qbody, qtable, qsent, qproject, qhpc, qjpc>>

\* The variables of the other sub-models, which an action leaves unchanged.
hrest == <<avars, svars, pvars, tvars, bvars, dvars, cvars, uvars, xvars, vvars, qvars>>
arest == <<hvars, svars, pvars, tvars, bvars, dvars, cvars, uvars, xvars, vvars, qvars>>
srest == <<hvars, avars, pvars, tvars, bvars, dvars, cvars, uvars, xvars, vvars, qvars>>
prest == <<hvars, avars, svars, tvars, bvars, dvars, cvars, uvars, xvars, vvars, qvars>>
trest == <<hvars, avars, svars, pvars, bvars, dvars, cvars, uvars, xvars, vvars, qvars>>
brest == <<hvars, avars, svars, pvars, tvars, dvars, cvars, uvars, xvars, vvars, qvars>>
drest == <<hvars, avars, svars, pvars, tvars, bvars, cvars, uvars, xvars, vvars, qvars>>
crest == <<hvars, avars, svars, pvars, tvars, bvars, dvars, uvars, xvars, vvars, qvars>>
urest == <<hvars, avars, svars, pvars, tvars, bvars, dvars, cvars, xvars, vvars, qvars>>
xrest == <<hvars, avars, svars, pvars, tvars, bvars, dvars, cvars, uvars, vvars, qvars>>
vrest == <<hvars, avars, svars, pvars, tvars, bvars, dvars, cvars, uvars, xvars, qvars>>
qrest == <<hvars, avars, svars, pvars, tvars, bvars, dvars, cvars, uvars, xvars, vvars>>

NoRet == [ok |-> FALSE, err |-> "none"]

Min(a, b) == IF a < b THEN a ELSE b
Max(a, b) == IF a > b THEN a ELSE b

(***************************************************************************)
(* get_number_of_token_holders                                             *)
(***************************************************************************)
InitLeft == 1
InitRight == 1000000000
Segments == 10
PageSize == 100

\* Bounds of the holder counts explored.
MaxSmallH == 320
MaxNearH == 12

HolderCounts ==
    (0 .. MaxSmallH)
        \cup ((InitRight - MaxNearH) .. (InitRight + PageSize + MaxNearH))

\* SourceCount with the offset taken as the 1-based index of the first record
\* returned (the record at position o is included in the page).
SourceCountOneBased(h, o) == Min(PageSize, Max(0, h - o + 1))

\* The static paginated source: a probe at offset o of a collection of h
\* records returns min(100, max(0, h - o)) records.
SourceCount(h, o) == Min(PageSize, Max(0, h - o))

\* query_coin_balances: the answer of one probe. A transport or
\* deserialization failure is an error; a response without the data array
\* is counted as 0 records (unwrap_or(0)); a failed task is a join error.
ProbeFaults == {"none", "transport", "dataless", "join"}

query_coin_balances(h, o, fault) ==
    CASE fault = "transport" -> [kind |-> "Err", count |-> 0]
      [] fault = "join" -> [kind |-> "JoinErr", count |-> 0]
      [] fault = "dataless" -> [kind |-> "Ok", count |-> 0]
      [] OTHER -> [kind |-> "Ok", count |-> SourceCount(h, o)]

\* The answers of the 10 probes of a round; probe fi suffers fault fk.
RoundAnswers(h, l, seg, fi, fk) ==
    [i \in 0 .. (Segments - 1) |->
        query_coin_balances(h, l + i * seg, IF i = fi THEN fk ELSE "none")]

\* Index of the first probe, in offset order, that decides the round:
\* a partial page, an empty page or an error; Segments when none does.
RECURSIVE FirstDecisive(_, _)
FirstDecisive(ans, i) ==
    IF i >= Segments THEN Segments
    ELSE IF ans[i].kind = "Ok" /\ ans[i].count = PageSize
         THEN FirstDecisive(ans, i + 1)
         ELSE i

\* ScanResults with the returned count dropped from the partial-page value.
ScanResultsNoCount(l, r, seg, ans) ==
    LET d == FirstDecisive(ans, 0) IN
    IF d = Segments
    THEN [ret |-> NoRet, left |-> r - seg + 1, right |-> r, done |-> FALSE]
    ELSE IF ans[d].kind # "Ok"
    THEN [ret |-> [ok |-> FALSE, err |-> "probe"], left |-> l, right |-> r,
          done |-> TRUE]
    ELSE IF ans[d].count > 0
    THEN [ret |-> [ok |-> TRUE, value |-> l + d * seg, how |-> "partial"],
          left |-> l, right |-> r, done |-> TRUE]
    ELSE [ret |-> NoRet,
          left |-> IF d > 0 THEN l + (d - 1) * seg ELSE l,
          right |-> l + d * seg - 1,
          done |-> FALSE]

\* ScanResults advancing left by one segment only when every page is full.
ScanResultsSlowAdvance(l, r, seg, ans) ==
    LET d == FirstDecisive(ans, 0) IN
    IF d = Segments
    THEN [ret |-> NoRet, left |-> l + seg, right |-> r, done |-> FALSE]
    ELSE IF ans[d].kind # "Ok"
    THEN [ret |-> [ok |-> FALSE, err |-> "probe"], left |-> l, right |-> r,
          done |-> TRUE]
    ELSE IF ans[d].count > 0
    THEN [ret |-> [ok |-> TRUE, value |-> l + d * seg + ans[d].count,
                   how |-> "partial"],
          left |-> l, right |-> r, done |-> TRUE]
    ELSE [ret |-> NoRet,
          left |-> IF d > 0 THEN l + (d - 1) * seg ELSE l,
          right |-> l + d * seg - 1,
          done |-> FALSE]

\* The scan of the joined results of one round (the for loop over results):
\* the new [left, right] and, when the call returns, its value.
ScanResults(l, r, seg, ans) ==
    LET d == FirstDecisive(ans, 0) IN
    IF d = Segments
    THEN [ret |-> NoRet, left |-> r - seg + 1, right |-> r, done |-> FALSE]
    ELSE IF ans[d].kind = "Err"
    THEN [ret |-> [ok |-> FALSE, err |-> "probe"], left |-> l, right |-> r,
          done |-> TRUE]
    ELSE IF ans[d].kind = "JoinErr"
    THEN [ret |-> [ok |-> FALSE, err |-> "ApiError"], left |-> l, right |-> r,
          done |-> TRUE]
    ELSE IF ans[d].count > 0
    THEN [ret |-> [ok |-> TRUE, value |-> l + d * seg + ans[d].count,
                   how |-> "partial"],
          left |-> l, right |-> r, done |-> TRUE]
    ELSE [ret |-> NoRet,
          left |-> IF d > 0 THEN l + (d - 1) * seg ELSE l,
          right |-> l + d * seg - 1,
          done |-> FALSE]

HoldersInit ==
    /\ H \in HolderCounts
    /\ left = InitLeft
    /\ right = InitRight
    /\ segment = 0
    /\ probes = 0
    /\ hfault = "none"
    /\ hpc = "loop"
    /\ hret = NoRet

HoldersIdle ==
    /\ H = 0
    /\ left = InitLeft
    /\ right = InitRight
    /\ segment = 0
    /\ probes = 0
    /\ hfault = "none"
    /\ hpc = "done"
    /\ hret = NoRet

\* The loop exits (left > right, or the segment rounds to 0): Ok(left).
HolderExit ==
    /\ hpc = "loop"
    /\ \/ left > right
       \/ (right - left + 1) \div Segments = 0
    /\ hpc' = "done"
    /\ hret' = [ok |-> TRUE, value |-> left, how |-> "loop"]
    /\ UNCHANGED <<H, left, right, segment, probes, hfault, hrest>>

\* One round: 10 probes are spawned and joined, then their results scanned.
\* At most one probe of a call is faulty.
HolderRound ==
    /\ hpc = "loop"
    /\ left <= right
    /\ (right - left + 1) \div Segments # 0
    /\ \E fi \in 0 .. (Segments - 1), fk \in ProbeFaults :
        /\ (fk # "none") => (hfault = "none")
        /\ (fk = "none") => (fi = 0)
        /\ LET seg == (right - left + 1) \div Segments
               ans == RoundAnswers(H, left, seg, fi, fk)
               out == ScanResults(left, right, seg, ans)
           IN /\ segment' = seg
              /\ probes' = probes + Segments
              /\ hfault' = IF fk # "none" THEN fk ELSE hfault
              /\ left' = out.left
              /\ right' = out.right
              /\ hret' = out.ret
              /\ hpc' = IF out.done THEN "done" ELSE "loop"
    /\ UNCHANGED <<H, hrest>>

\* Probe answers with no static collection behind them: any count of
\* 0 .. 100 per probe. The scan depends on the first probe that is not a full
\* page and on its count; the probes after it answer anything.
AnyCounts == {0, 1, PageSize - 1, PageSize}
DecisiveAt == {0, 1, Segments - 1, Segments}

AnyRoundAnswers ==
    {[i \in 0 .. (Segments - 1) |->
        [kind |-> "Ok",
         count |-> IF i < d THEN PageSize ELSE IF i = d THEN c ELSE rest]] :
     d \in DecisiveAt, c \in AnyCounts \ {PageSize}, rest \in AnyCounts}

HoldersAnyInit ==
    /\ H = 0
    /\ left = InitLeft
    /\ right = InitRight
    /\ segment = 0
    /\ probes = 0
    /\ hfault = "none"
    /\ hpc = "loop"
    /\ hret = NoRet

\* One round whose probes answer anything.
HolderRoundAny ==
    /\ hpc = "loop"
    /\ left <= right
    /\ (right - left + 1) \div Segments # 0
    /\ \E ans \in AnyRoundAnswers :
        LET seg == (right - left + 1) \div Segments
            out == ScanResults(left, right, seg, ans)
        IN /\ segment' = seg
           /\ probes' = probes + Segments
           /\ left' = out.left
           /\ right' = out.right
           /\ hret' = out.ret
           /\ hpc' = IF out.done THEN "done" ELSE "loop"
    /\ UNCHANGED <<H, hfault, hrest>>

(***************************************************************************)
(* Windowed aggregations: calculate_trading_volume, get_daily_active_users,*)
(* get_weekly_active_users, get_fee_within_n_days_pancake                  *)
(***************************************************************************)
\* Look-back of the 7-day windows, and of the daily-fees job, in days.
WindowDays == 7
FeeDays == 1

\* Scaled-down sizes: the page limit (100 in the source), the fan-out of a
\* batch (250; 50 for daily users) and the record ceiling of the weekly scan
\* (500,000).
PageLimit == 2
FanOutWide == 3
FanOutDaily == 2
Ceiling == 12

\* Bounds of the remote collections explored.
MaxLen == 13
NumTokens == 2

AggKinds == {"volume", "daily", "weekly", "fees"}
Tokens == 0 .. (NumTokens - 1)

FanOut(kind) == IF kind = "daily" THEN FanOutDaily ELSE FanOutWide
BatchSize(kind) == PageLimit * FanOut(kind)

\* Offsets past the end of every collection explored are not told apart
\* (every page there is empty); the batches issued there still alternate
\* aparity.
OffsetCap == MaxLen + Ceiling + PageLimit * FanOutWide
Advance(kind, o) == Min(o + BatchSize(kind), OffsetCap)

\* A collection ordered newest first: n0 records of today, then n7 records
\* dated 7 days ago, then n8 records dated 8 days ago. A record's age is the
\* number of days between its date and today; its time of day is that of now.
\* Two consecutive records share a sender.
RecordAt(i, n0, n7) ==
    [age |-> IF i <= n0 THEN 0
             ELSE IF i <= n0 + n7 THEN WindowDays ELSE WindowDays + 1,
     sender |-> i \div 2,
     token |-> i % NumTokens,
     amount |-> 1 + (i % 2)]

Collection(n0, n7, n8) == [i \in 1 .. (n0 + n7 + n8) |-> RecordAt(i, n0, n7)]

\* PageOffset with every offset after the first one record short: consecutive
\* pages overlap.
PageOffsetOverlap(o, p) == o + p * (PageLimit - 1)

\* `current_offset` of the p-th task (from 0) of a batch whose first task is
\* given the offset o: `offset` is copied into the task, then raised by the
\* page limit, before the task is spawned.
PageOffset(o, p) == o + p * PageLimit

\* The slice a query with `offset: o` returns (at most PageLimit records).
PageAt(src, o) ==
    IF o >= Len(src) THEN <<>>
    ELSE SubSeq(src, o + 1, Min(Len(src), o + PageLimit))

\* IsOld with the weekly comparison made strict (date > seven_days_ago).
IsOldStrictWeek(kind, rec) ==
    CASE kind = "volume" -> rec.age > WindowDays
      [] kind = "daily" -> rec.age # 0
      [] kind = "weekly" -> ~(rec.age < WindowDays)
      [] OTHER -> rec.age >= FeeDays

\* The test that ends the scan of a page:
\*   volume: utc_time < seven_days_ago
\*   daily:  transaction_date != today
\*   weekly: !(transaction_date >= seven_days_ago)
\*   fees:   transaction_date <= n_days_ago
IsOld(kind, rec) ==
    CASE kind = "volume" -> rec.age > WindowDays
      [] kind = "daily" -> rec.age # 0
      [] kind = "weekly" -> ~(rec.age <= WindowDays)
      [] OTHER -> rec.age >= FeeDays

\* Position of the first old record of a page, Len(page) + 1 when none.
RECURSIVE FirstOld(_, _, _)
FirstOld(kind, page, i) ==
    IF i > Len(page) THEN i
    ELSE IF IsOld(kind, page[i]) THEN i
    ELSE FirstOld(kind, page, i + 1)

\* One page task of volume / daily / weekly: the records it accumulated
\* before breaking out, and its local found flag.
ScanPage(kind, page) ==
    LET f == FirstOld(kind, page, 1) IN
    [recs |-> SubSeq(page, 1, f - 1), found |-> f <= Len(page)]

\* One page task of the fee aggregation: the date of the last event of the
\* page decides for the whole page; an empty page, or a failed timestamp
\* lookup (the task panics), yields nothing.
ScanFeePage(page, lookupFails) ==
    IF Len(page) = 0 \/ lookupFails
    THEN [recs |-> <<>>, day |-> FALSE]
    ELSE IF IsOld("fees", page[Len(page)])
    THEN [recs |-> <<>>, day |-> TRUE]
    ELSE [recs |-> page, day |-> TRUE]

RECURSIVE SumToken(_, _, _)
SumToken(recs, t, i) ==
    IF i > Len(recs) THEN 0
    ELSE (IF recs[i].token = t THEN recs[i].amount ELSE 0)
            + SumToken(recs, t, i + 1)

SendersOf(recs) == {recs[i].sender : i \in 1 .. Len(recs)}

\* Concatenation of the records accumulated by the pages in `ps` of a batch.
RECURSIVE BatchRecs(_, _, _, _, _)
BatchRecs(kind, src, o, ps, p) ==
    IF p >= FanOut(kind) THEN <<>>
    ELSE (IF p \in ps
          THEN ScanPage(kind, PageAt(src, PageOffset(o, p))).recs
          ELSE <<>>)
            \o BatchRecs(kind, src, o, ps, p + 1)

PageFound(kind, src, o, p) ==
    ScanPage(kind, PageAt(src, PageOffset(o, p))).found

\* calculate_trading_volume, the loop over the joined results: the first
\* result, in page order, that is a found flag or an error decides.
RECURSIVE FirstVolumeEvent(_, _, _, _)
FirstVolumeEvent(src, o, fails, p) ==
    IF p >= FanOut("volume") THEN "none"
    ELSE IF p \in fails THEN "err"
    ELSE IF PageFound("volume", src, o, p) THEN "found"
    ELSE FirstVolumeEvent(src, o, fails, p + 1)

ZeroVol == [t \in Tokens |-> 0]

AggInit ==
    /\ akind \in AggKinds
    /\ \E n0 \in 0 .. MaxLen, n7 \in 0 .. MaxLen, n8 \in 0 .. MaxLen :
        /\ n0 + n7 + n8 <= MaxLen
        /\ asrc = Collection(n0, n7, n8)
    /\ aoffset = 0
    /\ aparity = 0
    /\ afound = FALSE
    /\ ausers = {}
    /\ avol = ZeroVol
    /\ afailed = FALSE
    /\ apc = "run"
    /\ aret = NoRet
    /\ areq = <<>>

AggIdle ==
    /\ akind = "fees"
    /\ asrc = <<>>
    /\ aoffset = 0
    /\ aparity = 0
    /\ afound = FALSE
    /\ ausers = {}
    /\ avol = ZeroVol
    /\ afailed = FALSE
    /\ apc = "done"
    /\ aret = NoRet
    /\ areq = <<>>

Pages(kind) == 0 .. (FanOut(kind) - 1)

\* areq after the tasks of a batch starting at offset o were created. Past
\* OffsetCap the offsets are not told apart and are not recorded.
Requested(kind, req, o) ==
    IF o >= OffsetCap THEN req
    ELSE req \o [i \in 1 .. FanOut(kind) |-> PageOffset(o, i - 1)]

\* calculate_trading_volume: one batch of page tasks, joined; after the last
\* batch the per-token totals are priced and returned.
VolumeBatch ==
    /\ apc = "run" /\ akind = "volume" /\ ~afound
    /\ \E fails \in SUBSET Pages("volume") :
        LET ok == Pages("volume") \ fails
            recs == BatchRecs("volume", asrc, aoffset, ok, 0)
            ev == FirstVolumeEvent(asrc, aoffset, fails, 0)
        IN /\ avol' = [t \in Tokens |-> avol[t] + SumToken(recs, t, 1)]
           /\ aoffset' = Advance("volume", aoffset)
           /\ areq' = Requested("volume", areq, aoffset)
           /\ aparity' = 1 - aparity
           /\ afailed' = (afailed \/ fails # {})
           /\ afound' = (ev = "found")
           /\ apc' = IF ev = "none" THEN "run" ELSE "done"
           /\ aret' = CASE ev = "err" -> [ok |-> FALSE, err |-> "fetch"]
                        [] ev = "found" -> [ok |-> TRUE, value |-> avol']
                        [] OTHER -> aret
    /\ UNCHANGED <<akind, asrc, ausers, arest>>

\* get_daily_active_users: one batch; failed tasks are logged and skipped.
DailyBatch ==
    /\ apc = "run" /\ akind = "daily" /\ ~afound
    /\ \E fails \in SUBSET Pages("daily") :
        LET ok == Pages("daily") \ fails
            recs == BatchRecs("daily", asrc, aoffset, ok, 0)
        IN /\ ausers' = ausers \cup SendersOf(recs)
           /\ aoffset' = Advance("daily", aoffset)
           /\ areq' = Requested("daily", areq, aoffset)
           /\ aparity' = 1 - aparity
           /\ afailed' = (afailed \/ fails # {})
           /\ afound' = \E p \in ok : PageFound("daily", asrc, aoffset, p)
           /\ apc' = IF afound' THEN "done" ELSE "run"
           /\ aret' = IF afound'
                      THEN [ok |-> TRUE, value |-> Cardinality(ausers')]
                      ELSE aret
    /\ UNCHANGED <<akind, asrc, avol, arest>>

\* get_weekly_active_users: as daily, plus the break at the record ceiling.
WeeklyBatch ==
    /\ apc = "run" /\ akind = "weekly" /\ ~afound
    /\ \E fails \in SUBSET Pages("weekly") :
        LET ok == Pages("weekly") \ fails
            recs == BatchRecs("weekly", asrc, aoffset, ok, 0)
        IN /\ ausers' = ausers \cup SendersOf(recs)
           /\ aoffset' = Advance("weekly", aoffset)
           /\ areq' = Requested("weekly", areq, aoffset)
           /\ aparity' = 1 - aparity
           /\ afailed' = (afailed \/ fails # {})
           /\ afound' = \E p \in ok : PageFound("weekly", asrc, aoffset, p)
           /\ apc' = IF afound' \/ aoffset' >= Ceiling THEN "done" ELSE "run"
           /\ aret' = IF apc' = "done"
                      THEN [ok |-> TRUE, value |-> Cardinality(ausers')]
                      ELSE aret
    /\ UNCHANGED <<akind, asrc, avol, arest>>

RECURSIVE FeeRecs(_, _, _, _)
FeeRecs(src, fails, lookupFails, p) ==
    IF p >= FanOut("fees") THEN <<>>
    ELSE (IF p \in fails THEN <<>>
          ELSE ScanFeePage(PageAt(src, PageOffset(0, p)), p \in lookupFails).recs)
            \o FeeRecs(src, fails, lookupFails, p + 1)

\* get_fee_within_n_days_pancake: the single batch of page tasks; a task
\* whose query fails, or that panics, contributes nothing.
FeeBatch ==
    /\ apc = "run" /\ akind = "fees"
    /\ \E fails \in SUBSET Pages("fees"), lookupFails \in SUBSET Pages("fees") :
        /\ fails \cap lookupFails = {}
        /\ LET recs == FeeRecs(asrc, fails, lookupFails, 0)
           IN /\ avol' = [t \in Tokens |-> avol[t] + SumToken(recs, t, 1)]
              /\ aoffset' = Advance("fees", aoffset)
              /\ areq' = Requested("fees", areq, aoffset)
              /\ aparity' = 1 - aparity
              /\ afailed' = (fails # {} \/ lookupFails # {})
              /\ apc' = "done"
              /\ aret' = [ok |-> TRUE, value |-> avol']
    /\ UNCHANGED <<akind, asrc, afound, ausers, arest>>

(***************************************************************************)
(* Price oracle: get_price_and_decimals, get_decimals, get_balances        *)
(***************************************************************************)
USDT == "USDT"
USDC == "USDC"
DECIMALS_USD == 6

Stables == {USDC, USDT}

\* Bound of the pool balances explored, and the decimals explored.
MaxBal == 2
Decimals == {0, DECIMALS_USD, DECIMALS_USD + 2}

\* An Option is <<>> (None) or <<x>> (Some(x)).
\* The f64 values are modelled as exact non-negative fractions in lowest
\* terms; rounding is not modelled.
RECURSIVE Gcd(_, _)
Gcd(a, b) == IF b = 0 THEN a ELSE Gcd(b, a % b)

Rat(n, d) == LET g == Gcd(n, d) IN [num |-> n \div g, den |-> d \div g]

RatMul(a, b) ==
    LET x == Rat(a.num, b.den)
        y == Rat(b.num, a.den)
    IN [num |-> x.num * y.num, den |-> x.den * y.den]

RatAdd(a, b) ==
    LET g == Gcd(a.den, b.den)
    IN Rat(a.num * (b.den \div g) + b.num * (a.den \div g),
           (a.den \div g) * b.den)

RECURSIVE Pow10(_)
Pow10(k) == IF k = 0 THEN 1 ELSE 10 * Pow10(k - 1)

\* 10f64.powi(e)
Powi10(e) == IF e >= 0 THEN Rat(Pow10(e), 1) ELSE Rat(1, Pow10(0 - e))

\* The pool resource pairing the token with a stablecoin: absent, or keyed
\* <token, stablecoin> ("direct") or <stablecoin, token> ("reversed"), with
\* positive balances of the token and of the stablecoin.
NoPool == [order |-> "none", tok |-> 0, stb |-> 0]

PoolStates ==
    {NoPool} \cup [order : {"direct", "reversed"}, tok : 1 .. MaxBal,
                   stb : 1 .. MaxBal]

\* get_decimals: the metadata query; None on a transport failure or when the
\* response has no row.
get_decimals(ldec, fault) == IF fault THEN <<>> ELSE ldec

\* fetch_balances(token1, token2): (balance_x, balance_y) of the resource
\* keyed in the order asked for; None when the query fails or no resource
\* has that key.
fetch_balances(pool, order, fault) ==
    IF fault \/ pool.order # order THEN <<>>
    ELSE IF order = "direct" THEN << <<pool.tok, pool.stb>> >>
    ELSE << <<pool.stb, pool.tok>> >>

\* get_balances without the swap of the balances of the reversed-order answer.
get_balancesNoSwap(pool, f1, f2) ==
    LET d == fetch_balances(pool, "direct", f1)
        r == fetch_balances(pool, "reversed", f2)
    IN IF d # <<>>
       THEN [val |-> d, queries |-> <<[order |-> "direct", ok |-> TRUE]>>]
       ELSE [val |-> r,
             queries |-> <<[order |-> "direct", ok |-> FALSE],
                           [order |-> "reversed", ok |-> r # <<>>]>>]

\* get_balances(token, stablecoin): the value returned and the queries issued.
get_balances(pool, f1, f2) ==
    LET d == fetch_balances(pool, "direct", f1)
        r == fetch_balances(pool, "reversed", f2)
    IN IF d # <<>>
       THEN [val |-> d, queries |-> <<[order |-> "direct", ok |-> TRUE]>>]
       ELSE [val |-> IF r # <<>> THEN << <<r[1][2], r[1][1]>> >> ELSE <<>>,
             queries |-> <<[order |-> "direct", ok |-> FALSE],
                           [order |-> "reversed", ok |-> r # <<>>]>>]

\* price = balance_y / balance_x * 10^(decimals - DECIMALS_USD)
PriceFrom(bal, d) == RatMul(Rat(bal[2], bal[1]), Powi10(d - DECIMALS_USD))

\* get_price_and_decimals with the USDT probe looked at first.
get_price_and_decimalsUsdtFirst(token, dec, usdc_result, usdt_result) ==
    IF token \in Stables
    THEN <<[price |-> Rat(1, 1), decimals |-> DECIMALS_USD]>>
    ELSE IF dec = <<>> THEN <<>>
    ELSE IF usdt_result # <<>>
    THEN <<[price |-> PriceFrom(usdt_result[1], dec[1]), decimals |-> dec[1]]>>
    ELSE IF usdc_result # <<>>
    THEN <<[price |-> PriceFrom(usdc_result[1], dec[1]), decimals |-> dec[1]]>>
    ELSE <<>>

\* get_price_and_decimals: the value returned, given the answers of the
\* decimals lookup and of the two get_balances probes.
get_price_and_decimals(token, dec, usdc_result, usdt_result) ==
    IF token \in Stables
    THEN <<[price |-> Rat(1, 1), decimals |-> DECIMALS_USD]>>
    ELSE IF dec = <<>> THEN <<>>
    ELSE IF usdc_result # <<>>
    THEN <<[price |-> PriceFrom(usdc_result[1], dec[1]), decimals |-> dec[1]]>>
    ELSE IF usdt_result # <<>>
    THEN <<[price |-> PriceFrom(usdt_result[1], dec[1]), decimals |-> dec[1]]>>
    ELSE <<>>

NoProbe == [done |-> FALSE, val |-> <<>>, queries |-> <<>>]

PriceTokens == {"A"} \cup Stables

PriceInit ==
    /\ ptoken \in PriceTokens
    /\ ldecimals \in {<<>>} \cup {<<d>> : d \in Decimals}
    /\ lpools \in [Stables -> PoolStates]
    /\ (ptoken \in Stables) =>
            (ldecimals = <<DECIMALS_USD>> /\ lpools = [s \in Stables |-> NoPool])
    /\ ppc = "start"
    /\ pdecimals = <<>>
    /\ pbal = [s \in Stables |-> NoProbe]
    /\ pcalls = 0
    /\ pret = <<>>

PriceIdle ==
    /\ ptoken = USDC
    /\ ldecimals = <<DECIMALS_USD>>
    /\ lpools = [s \in Stables |-> NoPool]
    /\ ppc = "done"
    /\ pdecimals = <<>>
    /\ pbal = [s \in Stables |-> NoProbe]
    /\ pcalls = 0
    /\ pret = <<>>

\* PriceStable with the three lookups issued before the test of the token.
PriceStableEager ==
    /\ ppc = "start"
    /\ ptoken \in Stables
    /\ pret' = get_price_and_decimals(ptoken, <<>>, <<>>, <<>>)
    /\ pcalls' = pcalls + 3
    /\ ppc' = "done"
    /\ UNCHANGED <<ptoken, ldecimals, lpools, pdecimals, pbal, prest>>

\* The token is a reference stablecoin: return before any future is created.
PriceStable ==
    /\ ppc = "start"
    /\ ptoken \in Stables
    /\ pret' = get_price_and_decimals(ptoken, <<>>, <<>>, <<>>)
    /\ ppc' = "done"
    /\ UNCHANGED <<ptoken, ldecimals, lpools, pdecimals, pbal, pcalls, prest>>

\* decimals_future.await?: the decimals query is issued and awaited; None
\* returns None before either balance future is polled.
PriceDecimals ==
    /\ ppc = "start"
    /\ ptoken \notin Stables
    /\ \E fault \in BOOLEAN :
        LET dec == get_decimals(ldecimals, fault)
        IN /\ pdecimals' = dec
           /\ pcalls' = pcalls + 1
           /\ ppc' = IF dec = <<>> THEN "done" ELSE "probes"
           /\ pret' = IF dec = <<>>
                      THEN get_price_and_decimals(ptoken, dec, <<>>, <<>>)
                      ELSE pret
    /\ UNCHANGED <<ptoken, ldecimals, lpools, pbal, prest>>

\* tokio::join!: one of the two get_balances futures runs to completion.
PriceProbe(s) ==
    /\ ppc = "probes"
    /\ ~pbal[s].done
    /\ \E f1 \in BOOLEAN, f2 \in BOOLEAN :
        LET res == get_balances(lpools[s], f1, f2)
        IN /\ pbal' = [pbal EXCEPT ![s] = [done |-> TRUE, val |-> res.val,
                                           queries |-> res.queries]]
           /\ pcalls' = pcalls + Len(res.queries)
    /\ UNCHANGED <<ptoken, ldecimals, lpools, ppc, pdecimals, pret, prest>>

\* Both probes are joined: the result is selected and returned.
PriceSelect ==
    /\ ppc = "probes"
    /\ \A s \in Stables : pbal[s].done
    /\ pret' = get_price_and_decimals(ptoken, pdecimals, pbal[USDC].val,
                                      pbal[USDT].val)
    /\ ppc' = "done"
    /\ UNCHANGED <<ptoken, ldecimals, lpools, pdecimals, pbal, pcalls, prest>>

(***************************************************************************)
(* Total value locked: get_total_value_locked,                             *)
(* calculate_total_value_locked                                            *)
(***************************************************************************)
TvlTokens == {"A", "B"} \cup Stables

\* The liquidity pools of the account explored: (token_x, token_y).
PoolPairs == {<<"A", USDC>>, <<"B", "A">>, <<USDT, "B">>}

\* A pool's TokenPairReserve resource: absent, or present with reserve_x of
\* 1000 and reserve_y of 500 units of 10^ex and 10^ey raw amounts.
ReserveExps == {0, DECIMALS_USD}

PoolReserveStates ==
    {[present |-> FALSE, ex |-> 0, ey |-> 0]}
        \cup [present : {TRUE}, ex : ReserveExps, ey : ReserveExps]

\* The resources of the account: one resource of another type, and the
\* TokenPairReserve resource of every pool present.
AccountResources(res) ==
    {[type |-> "coin::CoinStore", x |-> "A", y |-> "A", reserve_x |-> 7,
      reserve_y |-> 7]}
        \cup {[type |-> "swap::TokenPairReserve", x |-> p[1], y |-> p[2],
               reserve_x |-> 1000 * Pow10(res[p].ex),
               reserve_y |-> 500 * Pow10(res[p].ey)] :
                    p \in {q \in PoolPairs : res[q].present}}

\* The reserves map built by get_total_value_locked: token -> summed reserve
\* over the matching resources.
RECURSIVE SumReserve(_, _)
SumReserve(objs, t) ==
    IF objs = {} THEN 0
    ELSE LET obj == CHOOSE o \in objs : TRUE
         IN (IF obj.x = t THEN obj.reserve_x ELSE 0)
                + (IF obj.y = t THEN obj.reserve_y ELSE 0)
                + SumReserve(objs \ {obj}, t)

\* ReservesOf with the two reserves of a resource credited to the other
\* token of the pair.
ReservesOfSwapped(objs) ==
    LET pools == {o \in objs : o.type = "swap::TokenPairReserve"}
        swapped == {[type |-> o.type, x |-> o.y, y |-> o.x,
                     reserve_x |-> o.reserve_x, reserve_y |-> o.reserve_y] :
                        o \in pools}
        toks == {o.x : o \in pools} \cup {o.y : o \in pools}
    IN [t \in toks |-> SumReserve(swapped, t)]

ReservesOf(objs) ==
    LET pools == {o \in objs : o.type = "swap::TokenPairReserve"}
        toks == {o.x : o \in pools} \cup {o.y : o \in pools}
    IN [t \in toks |-> SumReserve(pools, t)]

\* The values get_price_and_decimals can return for a token.
BalanceResults ==
    {<<>>} \cup {<< <<a, b>> >> : a \in 1 .. MaxBal, b \in 1 .. MaxBal}

QuoteResults(t) ==
    {get_price_and_decimals(t, dec, u, v) :
        dec \in {<<>>} \cup {<<d>> : d \in Decimals},
        u \in BalanceResults, v \in BalanceResults}

\* The outcomes of the task spawned for a token: its price lookup returned
\* (Some or None), or the task failed (JoinError).
TaskOutcomes(t) ==
    [join : {FALSE}, quote : QuoteResults(t)]
        \cup (IF t \in Stables THEN {} ELSE {[join |-> TRUE, quote |-> <<>>]})

Zero == [num |-> 0, den |-> 1]

\* The value a token's task adds to the total:
\* (price * reserve) / 10^decimals, 0.0 on None, unwrap_or(0.0) on JoinError.
TaskValue(out, reserve) ==
    IF out.join \/ out.quote = <<>> THEN Zero
    ELSE RatMul(out.quote[1].price,
                Rat(reserve, Pow10(out.quote[1].decimals)))

\* The loop `total_value_locked += task.await.unwrap_or(0.0)`.
RECURSIVE SumTasks(_, _, _)
SumTasks(reserves, outs, toks) ==
    IF toks = {} THEN Zero
    ELSE LET t == CHOOSE x \in toks : TRUE
         IN RatAdd(TaskValue(outs[t], reserves[t]),
                   SumTasks(reserves, outs, toks \ {t}))

\* calculate_total_value_locked giving up (0.0) when some lookup failed.
calculate_total_value_lockedAbort(reserves, outs) ==
    IF \E t \in DOMAIN reserves : outs[t].join \/ outs[t].quote = <<>>
    THEN Zero
    ELSE SumTasks(reserves, outs, DOMAIN reserves)

calculate_total_value_locked(reserves, outs) ==
    SumTasks(reserves, outs, DOMAIN reserves)

TvlInit ==
    /\ tres \in [PoolPairs -> PoolReserveStates]
    /\ treserves = <<>>
    /\ touts = <<>>
    /\ tpc = "fetch"
    /\ tret = NoRet

TvlIdle ==
    /\ tres = [p \in PoolPairs |-> [present |-> FALSE, ex |-> 0, ey |-> 0]]
    /\ treserves = <<>>
    /\ touts = <<>>
    /\ tpc = "done"
    /\ tret = NoRet

\* get_total_value_locked: the resources of the account are fetched and the
\* reserves map is built; a transport or decoding failure returns the error,
\* a response that is not an array leaves the map empty.
TvlFetch ==
    /\ tpc = "fetch"
    /\ \E fault \in {"none", "transport", "notarray"} :
        /\ treserves' = IF fault = "none"
                        THEN ReservesOf(AccountResources(tres))
                        ELSE <<>>
        /\ tpc' = IF fault = "transport" THEN "done" ELSE "tasks"
        /\ tret' = IF fault = "transport"
                   THEN [ok |-> FALSE, err |-> "reqwest"]
                   ELSE tret
    /\ UNCHANGED <<tres, touts, trest>>

\* calculate_total_value_locked: one task per token of the map is spawned
\* and runs to its end.
TvlTasks ==
    /\ tpc = "tasks"
    /\ \E oa \in TaskOutcomes("A"), ob \in TaskOutcomes("B") :
        /\ ("A" \notin DOMAIN treserves) => (oa = [join |-> TRUE, quote |-> <<>>])
        /\ ("B" \notin DOMAIN treserves) => (ob = [join |-> TRUE, quote |-> <<>>])
        /\ touts' = [t \in DOMAIN treserves |->
                        CASE t = "A" -> oa
                          [] t = "B" -> ob
                          [] OTHER -> CHOOSE o \in TaskOutcomes(t) : TRUE]
    /\ tpc' = "sum"
    /\ UNCHANGED <<tres, treserves, tret, trest>>

\* The tasks are awaited and their values added up; the total is returned.
TvlSum ==
    /\ tpc = "sum"
    /\ tret' = [ok |-> TRUE,
                value |-> calculate_total_value_locked(treserves, touts)]
    /\ tpc' = "done"
    /\ UNCHANGED <<tres, treserves, touts, trest>>

(***************************************************************************)
(* Scheduler: spawn_tasks, run_task and the update_* routines              *)
(***************************************************************************)
\* Bounds: ticks started in a behaviour, and distinct metric values.
MaxTicks == 2
MaxVal == 2

\* The task list of spawn_tasks, in list order.
TaskTypes ==
    <<"TotalValueLocked", "TokenTerminalData", "MarketCap",
      "NumberOfTokenHolders", "TradingVolume", "DailyActiveUsers",
      "WeeklyActiveUsers", "DailyFees">>

Jobs == 1 .. Len(TaskTypes)
Vals == 1 .. MaxVal

TokenTerminalKeys ==
    {"ath", "ath_last", "atl", "atl_last", "revenue_30d",
     "revenue_annualized", "expenses_30d", "earnings_30d", "fees_30d",
     "fees_annualized", "token_incentives_30d", "monthly_active_users",
     "afpu", "arpu", "token_trading_volume_30d"}

\* KeysOf with the daily-fees job writing the key fees_30d.
KeysOfFeesShared(tt) ==
    CASE tt = "TotalValueLocked" -> {"total_value_locked"}
      [] tt = "TokenTerminalData" -> TokenTerminalKeys
      [] tt = "MarketCap" ->
            {"market_cap_fully_diluted", "market_cap_circulating"}
      [] tt = "NumberOfTokenHolders" -> {"num_token_holders"}
      [] tt = "TradingVolume" -> {"trading_volume"}
      [] tt = "DailyActiveUsers" -> {"daily_active_users"}
      [] tt = "WeeklyActiveUsers" -> {"weekly_active_users"}
      [] OTHER -> {"fees_30d"}

\* The attribute keys an update_* routine writes.
KeysOf(tt) ==
    CASE tt = "TotalValueLocked" -> {"total_value_locked"}
      [] tt = "TokenTerminalData" -> TokenTerminalKeys
      [] tt = "MarketCap" ->
            {"market_cap_fully_diluted", "market_cap_circulating"}
      [] tt = "NumberOfTokenHolders" -> {"num_token_holders"}
      [] tt = "TradingVolume" -> {"trading_volume"}
      [] tt = "DailyActiveUsers" -> {"daily_active_users"}
      [] tt = "WeeklyActiveUsers" -> {"weekly_active_users"}
      [] OTHER -> {"daily_fees"}

\* What the remote ledger and the database answer during one tick.
\*   result:  the aggregation routine's own outcome ("ok" | "err")
\*   price:   get_price_and_decimals ("some" | "none")
\*   project: get_project_by_address ("row" | "norow" | "dberr")
\*   supply:  get_token_supply ("ok" | "err" | "nokey": the data object of
\*            the response has no "decimals" or "supply" member)
\*   maxSupply: the project has an integer attribute token_max_supply
Envs(tt) ==
    IF tt = "MarketCap"
    THEN [result : {"ok"}, price : {"some", "none"},
          project : {"row", "norow", "dberr"},
          supply : {"ok", "err", "nokey"}, maxSupply : BOOLEAN]
    ELSE [result : IF tt \in {"DailyActiveUsers", "WeeklyActiveUsers",
                              "DailyFees"}
                   THEN {"ok"} ELSE {"ok", "err"},
          price : {"some"}, project : {"row"}, supply : {"ok"},
          maxSupply : {TRUE}]

\* calculate_market_cap: "Ok", "Err", or "Panic" (unwrap of a missing project
\* row; indexing a missing member of the supply response).
calculate_market_cap(env) ==
    IF env.price = "none" THEN "Err"
    ELSE IF env.project = "dberr" THEN "Err"
    ELSE IF env.project = "norow" THEN "Panic"
    ELSE IF env.supply = "err" THEN "Err"
    ELSE IF env.supply = "nokey" THEN "Panic"
    ELSE "Ok"

\* Outcome of the aggregation call of an update_* routine.
RoutineOutcome(tt, env) ==
    IF tt = "MarketCap" THEN calculate_market_cap(env)
    ELSE IF env.result = "ok" THEN "Ok" ELSE "Err"

\* The (key, value) pairs an update_* routine upserts on success.
AttrWrites(tt, env, v) ==
    IF tt = "MarketCap"
    THEN {<<"market_cap_fully_diluted", IF env.maxSupply THEN v ELSE 0>>,
          <<"market_cap_circulating", v>>}
    ELSE {<<k, v>> : k \in KeysOf(tt)}

\* update_project_attribute calls that fail are logged and skipped.
DbFailChoices(keys) == {{}, keys} \cup {{k} : k \in keys}

\* Upsert without the ON CONFLICT clause: a plain INSERT of every row.
UpsertInsertOnly(bag, ws) == bag \cup ws

\* update_project_attribute, for the pairs `ws` (of distinct keys): INSERT
\* ... ON CONFLICT (project_id, key) DO UPDATE SET value. The rows are those
\* of the one tracked project (project_id 1).
Upsert(bag, ws) ==
    {r \in bag : \A w \in ws : w[1] # r[1]} \cup ws

AttrKeys(rows) == {r[1] : r \in rows}

\* Whether the max supply could be read, and if not why.
MaxSupplyState(env) ==
    IF env.project # "row" THEN env.project
    ELSE IF env.maxSupply THEN "present" ELSE "absent"

NoCall == [called |-> FALSE]

\* The calculate_market_cap call of a MarketCap tick, as recorded in mcall.
MarketCapCall(env, v) ==
    [called |-> TRUE,
     resolved |-> (env.price = "some" /\ env.supply = "ok"),
     max |-> MaxSupplyState(env),
     out |-> calculate_market_cap(env),
     fully_diluted |-> IF calculate_market_cap(env) = "Ok" /\ env.maxSupply
                       THEN v ELSE 0]

\* wlog after a routine of kind tt issued update_project_attribute calls
\* for the keys `ks`.
Logged(log, tt, ks) ==
    [k \in DOMAIN log \cup ks |->
        IF k \in ks
        THEN (IF k \in DOMAIN log THEN log[k] ELSE {}) \cup {tt}
        ELSE log[k]]

SchedInit ==
    /\ spawned = 0
    /\ jpc = [j \in Jobs |-> "unspawned"]
    /\ jcalls = [j \in Jobs |-> 0]
    /\ started = 0
    /\ attrs = {}
    /\ mcall = NoCall
    /\ wlog = <<>>

\* spawn_tasks: tokio::spawn(run_task(task)) for the next task of the list,
\* then sleep(delay). The job creates its interval and awaits its tick.
SpawnTask ==
    /\ spawned < Len(TaskTypes)
    /\ spawned' = spawned + 1
    /\ jpc' = [jpc EXCEPT ![spawned + 1] = "idle"]
    /\ UNCHANGED <<jcalls, started, attrs, mcall, wlog, srest>>

\* TickStart with the update routine spawned instead of awaited: the interval
\* can fire again while the previous invocation is in progress.
TickStartDetached(j) ==
    /\ jpc[j] \in {"idle", "running"}
    /\ started < MaxTicks
    /\ jpc' = [jpc EXCEPT ![j] = "running"]
    /\ jcalls' = [jcalls EXCEPT ![j] = @ + 1]
    /\ started' = started + 1
    /\ UNCHANGED <<spawned, attrs, mcall, wlog, srest>>

\* run_task: interval.tick() completes and the update routine is invoked.
TickStart(j) ==
    /\ jpc[j] = "idle"
    /\ started < MaxTicks
    /\ jpc' = [jpc EXCEPT ![j] = "running"]
    /\ jcalls' = [jcalls EXCEPT ![j] = @ + 1]
    /\ started' = started + 1
    /\ UNCHANGED <<spawned, attrs, mcall, wlog, srest>>

\* run_task: the update routine returns (Ok: the attributes are upserted;
\* Err: logged) and the loop goes back to interval.tick(); or it panics and
\* the job's task ends.
TickFinish(j) ==
    /\ jpc[j] = "running"
    /\ \E env \in Envs(TaskTypes[j]), v \in Vals,
          dbFails \in DbFailChoices(KeysOf(TaskTypes[j])) :
        LET out == RoutineOutcome(TaskTypes[j], env)
            calls == AttrWrites(TaskTypes[j], env, v)
            ws == {w \in calls : w[1] \notin dbFails}
        IN /\ (out # "Ok") => (dbFails = {} /\ v = 1)
           /\ attrs' = IF out = "Ok" THEN Upsert(attrs, ws) ELSE attrs
           /\ wlog' = IF out = "Ok"
                       THEN Logged(wlog, TaskTypes[j],
                                   {w[1] : w \in calls})
                       ELSE wlog
           /\ mcall' = IF TaskTypes[j] = "MarketCap"
                        THEN MarketCapCall(env, v) ELSE mcall
           /\ jpc' = [jpc EXCEPT ![j] = IF out = "Panic" THEN "dead" ELSE "idle"]
           /\ jcalls' = [jcalls EXCEPT ![j] = @ - 1]
    /\ UNCHANGED <<spawned, started, srest>>

SchedIdle ==
    /\ spawned = 0
    /\ jpc = [j \in Jobs |-> "unspawned"]
    /\ jcalls = [j \in Jobs |-> 0]
    /\ started = 0
    /\ attrs = {}
    /\ mcall = NoCall
    /\ wlog = <<>>

(***************************************************************************)
(* Attribute store: update_project_attribute, Project::set_attribute       *)
(***************************************************************************)
\* Bound: calls issued in a behaviour.
MaxCalls == 3

\* The keys explored.
StoreKeys == {"trading_volume", "daily_fees"}

update_project_attribute(b, key, value) == Upsert(b, {<<key, value>>})

\* Project::set_attribute on the attributes vector: the first entry with the
\* key is overwritten, or a new entry is pushed.
set_attribute(as, key, value) ==
    IF \E i \in 1 .. Len(as) : as[i][1] = key
    THEN LET f == CHOOSE i \in 1 .. Len(as) :
                    /\ as[i][1] = key
                    /\ \A j \in 1 .. (i - 1) : as[j][1] # key
         IN [as EXCEPT ![f] = <<key, value>>]
    ELSE Append(as, <<key, value>>)

\* The record of the successful calls for a key: the value of the latest one
\* and their number.
Noted(last, key, value) ==
    [k \in DOMAIN last \cup {key} |->
        IF k = key
        THEN [value |-> value,
              n |-> IF key \in DOMAIN last THEN last[key].n + 1 ELSE 1]
        ELSE last[k]]

StoreInit ==
    /\ btable = {}
    /\ blast = <<>>
    /\ pattrs = <<>>
    /\ plast = <<>>
    /\ bcalls = 0

StoreIdle ==
    /\ btable = {}
    /\ blast = <<>>
    /\ pattrs = <<>>
    /\ plast = <<>>
    /\ bcalls = MaxCalls

\* One update_project_attribute call; the statement can fail (sqlx::Error),
\* leaving the table as it was.
StoreUpdate ==
    /\ bcalls < MaxCalls
    /\ \E key \in StoreKeys, value \in Vals, fails \in BOOLEAN :
        /\ btable' = IF fails THEN btable
                     ELSE update_project_attribute(btable, key, value)
        /\ blast' = IF fails THEN blast ELSE Noted(blast, key, value)
    /\ bcalls' = bcalls + 1
    /\ UNCHANGED <<pattrs, plast, brest>>

\* One Project::set_attribute call on the in-memory project.
StoreSet ==
    /\ bcalls < MaxCalls
    /\ \E key \in StoreKeys, value \in Vals :
        /\ pattrs' = set_attribute(pattrs, key, value)
        /\ plast' = Noted(plast, key, value)
    /\ bcalls' = bcalls + 1
    /\ UNCHANGED <<btable, blast, brest>>

(***************************************************************************)
(* Stored attribute values: Value::to_string, get_value_type, parse_value  *)
(***************************************************************************)
\* Scaled widths: integers have IntBits bits (64 in the source).
IntBits == 4
I64Max == 2 ^ (IntBits - 1) - 1
I64Min == 0 - 2 ^ (IntBits - 1)
U64Max == 2 ^ IntBits - 1

\* Bounds of the values explored: floats are the multiples of 0.5 from
\* -MaxHalf/2 to MaxHalf/2, strings have at most MaxStr characters.
MaxHalf == 3
MaxStr == 2
StrChars == {"a", "3"}

\* A serde_json::Value: <<"null">>, <<"bool", b>>, <<"number", repr, n>> with
\* repr one of "PosInt", "NegInt", "Float" (n counts halves for a Float),
\* <<"string", chars>>, <<"array", items>>, <<"object", members>> with a
\* member <<key chars, value>>. A text is a sequence of characters.
Null == <<"null">>

Strings == UNION {[1 .. n -> StrChars] : n \in 0 .. MaxStr}

ScalarValues ==
    {Null} \cup {<<"bool", b>> : b \in BOOLEAN}
        \cup {<<"number", "PosInt", n>> : n \in 0 .. U64Max}
        \cup {<<"number", "NegInt", n>> : n \in I64Min .. (0 - 1)}
        \cup {<<"number", "Float", h>> : h \in (0 - MaxHalf) .. MaxHalf}
        \cup {<<"string", s>> : s \in Strings}

\* Arrays of at most one item and objects of at most one member.
AttrValues ==
    ScalarValues
        \cup {<<"array", <<>>>>} \cup {<<"array", <<v>>>> : v \in ScalarValues}
        \cup {<<"object", <<>>>>}
        \cup {<<"object", << <<<<"a">>, v>> >>>> : v \in ScalarValues}

DigitChars == <<"0", "1", "2", "3", "4", "5", "6", "7", "8", "9">>

RECURSIVE Digits(_)
Digits(n) ==
    IF n < 10 THEN <<DigitChars[n + 1]>>
    ELSE Digits(n \div 10) \o <<DigitChars[(n % 10) + 1]>>

IsDigits(t) ==
    Len(t) > 0 /\ \A i \in 1 .. Len(t) : \E d \in 1 .. 10 : DigitChars[d] = t[i]

DigitVal(c) == (CHOOSE d \in 1 .. 10 : DigitChars[d] = c) - 1

RECURSIVE NatOf(_)
NatOf(t) ==
    IF Len(t) = 1 THEN DigitVal(t[1])
    ELSE 10 * NatOf(SubSeq(t, 1, Len(t) - 1)) + DigitVal(t[Len(t)])

Tail1(t) == SubSeq(t, 2, Len(t))
Inner(t) == SubSeq(t, 2, Len(t) - 1)

\* Display of a Number: an integer in decimal; a float with its fraction.
NumberText(v) ==
    IF v[2] = "PosInt" THEN Digits(v[3])
    ELSE IF v[2] = "NegInt" THEN <<"-">> \o Digits(0 - v[3])
    ELSE LET a == IF v[3] < 0 THEN 0 - v[3] ELSE v[3]
         IN (IF v[3] < 0 THEN <<"-">> ELSE <<>>)
                \o Digits(a \div 2) \o <<".">>
                \o (IF a % 2 = 1 THEN <<"5">> ELSE <<"0">>)

\* Value::to_string(): the compact JSON text of the value.
RECURSIVE to_string(_)
to_string(v) ==
    CASE v[1] = "null" -> <<"n", "u", "l", "l">>
      [] v[1] = "bool" -> IF v[2] THEN <<"t", "r", "u", "e">>
                          ELSE <<"f", "a", "l", "s", "e">>
      [] v[1] = "number" -> NumberText(v)
      [] v[1] = "string" -> <<"\"">> \o v[2] \o <<"\"">>
      [] v[1] = "array" ->
            <<"[">> \o (IF v[2] = <<>> THEN <<>> ELSE to_string(v[2][1]))
                \o <<"]">>
      [] OTHER ->
            <<"{">>
                \o (IF v[2] = <<>> THEN <<>>
                    ELSE <<"\"">> \o v[2][1][1] \o <<"\"", ":">>
                            \o to_string(v[2][1][2]))
                \o <<"}">>

\* get_value_type: the type tag stored with the text.
get_value_type(v) ==
    CASE v[1] = "null" -> "null"
      [] v[1] = "bool" -> "boolean"
      [] v[1] = "number" ->
            IF v[2] = "NegInt" \/ (v[2] = "PosInt" /\ v[3] <= I64Max)
            THEN "integer" ELSE "float"
      [] v[1] = "string" -> "string"
      [] v[1] = "array" -> "array"
      [] OTHER -> "object"

\* The magnitude texts: digits, or digits "." digit.
IsFraction(t) ==
    /\ Len(t) >= 3
    /\ t[Len(t) - 1] = "."
    /\ IsDigits(SubSeq(t, 1, Len(t) - 2))
    /\ t[Len(t)] \in {"0", "5"}

HalvesOf(t) ==
    IF IsDigits(t) THEN 2 * NatOf(t)
    ELSE 2 * NatOf(SubSeq(t, 1, Len(t) - 2))
            + (IF t[Len(t)] = "5" THEN 1 ELSE 0)

\* str::parse::<f64>(): Some(halves) or None.
ParseF64(t) ==
    LET neg == Len(t) > 0 /\ t[1] = "-"
        m == IF neg THEN Tail1(t) ELSE t
    IN IF IsDigits(m) \/ IsFraction(m)
       THEN <<IF neg THEN 0 - HalvesOf(m) ELSE HalvesOf(m)>>
       ELSE <<>>

\* The JSON number a text denotes (str::parse::<Number>() and the number
\* rule of serde_json::from_str): an integer that fits is PosInt or NegInt,
\* any other number is a Float; None when the text is not a number.
ParseNumber(t) ==
    LET neg == Len(t) > 0 /\ t[1] = "-"
        m == IF neg THEN Tail1(t) ELSE t
    IN IF IsDigits(m) /\ ~neg /\ NatOf(m) <= U64Max
       THEN << <<"number", "PosInt", NatOf(m)>> >>
       ELSE IF IsDigits(m) /\ neg /\ NatOf(m) > 0 /\ 0 - NatOf(m) >= I64Min
       THEN << <<"number", "NegInt", 0 - NatOf(m)>> >>
       ELSE IF IsDigits(m) \/ IsFraction(m)
       THEN << <<"number", "Float", ParseF64(t)[1]>> >>
       ELSE <<>>

IsQuoted(t) ==
    /\ Len(t) >= 2 /\ t[1] = "\"" /\ t[Len(t)] = "\""
    /\ \A i \in 2 .. (Len(t) - 1) : t[i] # "\""

\* serde_json::from_str for a text without top-level commas: Some(value) or
\* None.
RECURSIVE from_str(_)
from_str(t) ==
    IF t = <<"n", "u", "l", "l">> THEN <<Null>>
    ELSE IF t = <<"t", "r", "u", "e">> THEN << <<"bool", TRUE>> >>
    ELSE IF t = <<"f", "a", "l", "s", "e">> THEN << <<"bool", FALSE>> >>
    ELSE IF IsQuoted(t) THEN << <<"string", Inner(t)>> >>
    ELSE IF ParseNumber(t) # <<>> THEN ParseNumber(t)
    ELSE IF Len(t) >= 2 /\ t[1] = "[" /\ t[Len(t)] = "]"
    THEN (IF Len(t) = 2 THEN << <<"array", <<>>>> >>
          ELSE LET item == from_str(Inner(t))
               IN IF item = <<>> THEN <<>> ELSE << <<"array", item>> >>)
    ELSE IF Len(t) >= 2 /\ t[1] = "{" /\ t[Len(t)] = "}"
    THEN (IF Len(t) = 2 THEN << <<"object", <<>>>> >>
          ELSE LET body == Inner(t)
                   colons == {i \in 1 .. Len(body) :
                                /\ body[i] = ":"
                                /\ IsQuoted(SubSeq(body, 1, i - 1))}
               IN IF colons = {} THEN <<>>
                  ELSE LET c == CHOOSE i \in colons : TRUE
                           val == from_str(SubSeq(body, c + 1, Len(body)))
                       IN IF val = <<>> THEN <<>>
                          ELSE << <<"object",
                                    << <<Inner(SubSeq(body, 1, c - 1)),
                                         val[1]>> >>>> >>)
    ELSE <<>>

\* parse_value: the value read back from a stored text and type tag.
parse_value(t, value_type) ==
    CASE value_type = "null" -> Null
      [] value_type = "boolean" ->
            <<"bool", t = <<"t", "r", "u", "e">>>>
      [] value_type = "integer" ->
            IF ParseNumber(t) # <<>> THEN ParseNumber(t)[1]
            ELSE <<"number", "PosInt", 0>>
      [] value_type = "float" ->
            <<"number", "Float",
              IF ParseF64(t) # <<>> THEN ParseF64(t)[1] ELSE 0>>
      [] value_type = "string" -> <<"string", t>>
      [] value_type \in {"array", "object"} ->
            IF from_str(t) # <<>> THEN from_str(t)[1] ELSE Null
      [] OTHER -> Null

CodecInit ==
    /\ dval \in AttrValues
    /\ dtext = <<>>
    /\ dtype = "none"
    /\ dback = Null
    /\ dpc = "new"

CodecIdle ==
    /\ dval = Null
    /\ dtext = <<>>
    /\ dtype = "none"
    /\ dback = Null
    /\ dpc = "read"

\* create_project / update_project: the attribute is inserted as the pair
\* (value.to_string(), get_value_type(value)).
CodecStore ==
    /\ dpc = "new"
    /\ dtext' = to_string(dval)
    /\ dtype' = get_value_type(dval)
    /\ dpc' = "stored"
    /\ UNCHANGED <<dval, dback, drest>>

\* get_project_attributes: the row is read back through parse_value.
CodecRead ==
    /\ dpc = "stored"
    /\ dback' = parse_value(dtext, dtype)
    /\ dpc' = "read"
    /\ UNCHANGED <<dval, dtext, dtype, drest>>

\* The texts a scheduler job hands to update_project_attribute: the scraped
\* strings explored, and the texts that read as null, a boolean or a number.
ScrapedTexts ==
    Strings \cup {to_string(v) : v \in {w \in ScalarValues : w[1] # "string"}}

\* str::parse::<i64>(): whether the text is an integer that fits i64.
IsI64Text(t) ==
    LET neg == Len(t) > 0 /\ t[1] = "-"
        m == IF neg THEN Tail1(t) ELSE t
    IN /\ IsDigits(m)
       /\ IF neg THEN 0 - NatOf(m) >= I64Min ELSE NatOf(m) <= I64Max

\* get_type: the type tag update_project_attribute stores with a text.
get_type(t) ==
    IF t = <<"n", "u", "l", "l">> THEN "null"
    ELSE IF t \in {<<"t", "r", "u", "e">>, <<"f", "a", "l", "s", "e">>}
    THEN "boolean"
    ELSE IF IsI64Text(t) THEN "integer"
    ELSE IF ParseF64(t) # <<>> THEN "float"
    ELSE "string"

UpsertTextInit ==
    /\ dval \in {<<"string", t>> : t \in ScrapedTexts}
    /\ dtext = <<>>
    /\ dtype = "none"
    /\ dback = Null
    /\ dpc = "new"

\* update_project_attribute(project_id, key, value) with the String held by
\* dval: the row becomes (value.to_string(), get_type(&value)).
CodecUpsert ==
    /\ dpc = "new"
    /\ dval[1] = "string"
    /\ dtext' = dval[2]
    /\ dtype' = get_type(dval[2])
    /\ dpc' = "stored"
    /\ UNCHANGED <<dval, dback, drest>>

(***************************************************************************)
(* Scheduler in time: the stagger of spawn_tasks and the interval of each  *)
(* run_task. Time is in seconds since spawn_tasks was called.              *)
(***************************************************************************)
\* `delay` of spawn_tasks.
Delay == 120

\* `interval` of each task of the list, in list order.
Intervals == <<3600, 240, 3600, 86400, 3600, 7200, 86400, 86400>>

\* Bounds: the time observed, and the jobs that misbehave in a behaviour.
Horizon == 900
MaxFaulty == 1

\* How long an update routine that returns takes.
TickDurations == {30, 300}

NoTime == 0 - 1

\* spawn_tasks without the pause after a start.
SleepUntilNoDelay(t) == t

\* sleep(delay).await, entered at time t: the time spawn_tasks resumes.
SleepUntil(t) == t + Delay

\* All jobs awaited in turn by one task: a tick starts only when no other
\* job's update routine is in progress.
CanStartSerial(j) ==
    /\ now >= due[j]
    /\ \A k \in Jobs \ {j} : cst[k] \notin {"running", "hung"}

\* interval.tick().await of job j completes: its deadline has been reached.
\* Each job is its own spawned task, so nothing else gates it.
CanStart(j) == now >= due[j]

ClockFaulty == {j \in Jobs : cbad[j] # "none"}

MayFault(j) == cbad[j] # "none" \/ Cardinality(ClockFaulty) < MaxFaulty

ClockInit ==
    /\ now = 0
    /\ wake = 0
    /\ cspawned = 0
    /\ due = [j \in Jobs |-> 0]
    /\ cst = [j \in Jobs |-> "unspawned"]
    /\ fin = [j \in Jobs |-> 0]
    /\ first = [j \in Jobs |-> NoTime]
    /\ cbad = [j \in Jobs |-> "none"]

ClockIdle ==
    /\ now = 0
    /\ wake = 0
    /\ cspawned = 0
    /\ due = [j \in Jobs |-> 0]
    /\ cst = [j \in Jobs |-> "unspawned"]
    /\ fin = [j \in Jobs |-> 0]
    /\ first = [j \in Jobs |-> NoTime]
    /\ cbad = [j \in Jobs |-> "none"]

\* spawn_tasks: tokio::spawn(run_task(task)) for the next task of the list,
\* then sleep(delay). run_task creates its interval, whose first tick is due
\* at once.
ClockSpawn ==
    /\ cspawned < Len(TaskTypes)
    /\ now >= wake
    /\ cspawned' = cspawned + 1
    /\ cst' = [cst EXCEPT ![cspawned + 1] = "waiting"]
    /\ due' = [due EXCEPT ![cspawned + 1] = now]
    /\ wake' = SleepUntil(now)
    /\ UNCHANGED <<now, fin, first, cbad, crest>>

\* run_task: interval.tick() completes and the update routine is invoked; it
\* returns after some time, or never. The next tick is due one period after
\* this one was.
ClockTick(j) ==
    /\ cst[j] = "waiting"
    /\ CanStart(j)
    /\ \/ \E d \in TickDurations :
            /\ cst' = [cst EXCEPT ![j] = "running"]
            /\ fin' = [fin EXCEPT ![j] = now + d]
            /\ cbad' = cbad
       \/ /\ MayFault(j)
          /\ cst' = [cst EXCEPT ![j] = "hung"]
          /\ cbad' = [cbad EXCEPT ![j] = "hang"]
          /\ fin' = fin
    /\ due' = [due EXCEPT ![j] = @ + Intervals[j]]
    /\ first' = [first EXCEPT ![j] = IF @ = NoTime THEN now ELSE @]
    /\ UNCHANGED <<now, wake, cspawned, crest>>

\* run_task: the update routine returns Ok or Err (logged) and the loop goes
\* back to interval.tick(); or it panics and the job's task ends.
ClockFinish(j) ==
    /\ cst[j] = "running"
    /\ now >= fin[j]
    /\ \E out \in {"Ok", "Err", "Panic"} :
        /\ (out # "Ok") => MayFault(j)
        /\ cst' = [cst EXCEPT ![j] = IF out = "Panic" THEN "dead" ELSE "waiting"]
        /\ cbad' = [cbad EXCEPT ![j] = CASE out = "Panic" -> "panic"
                                         [] out = "Err" -> "err"
                                         [] OTHER -> @]
    /\ UNCHANGED <<now, wake, cspawned, due, fin, first, crest>>

\* The times at which a sleeping task is woken.
ClockEvents ==
    (IF cspawned < Len(TaskTypes) THEN {wake} ELSE {})
        \cup {due[j] : j \in {k \in Jobs : cst[k] = "waiting"}}
        \cup {fin[j] : j \in {k \in Jobs : cst[k] = "running"}}

\* Some task can run now.
ClockUrgent ==
    \/ cspawned < Len(TaskTypes) /\ now >= wake
    \/ \E j \in Jobs : cst[j] = "waiting" /\ CanStart(j)
    \/ \E j \in Jobs : cst[j] = "running" /\ now >= fin[j]

\* Time passes, up to the next wake-up, while no task can run.
ClockAdvance ==
    /\ ~ClockUrgent
    /\ \E t \in ClockEvents :
        /\ t > now
        /\ t <= Horizon
        /\ \A u \in ClockEvents : u > now => t <= u
        /\ now' = t
    /\ UNCHANGED <<wake, cspawned, due, cst, fin, first, cbad, crest>>

(***************************************************************************)
(* One invocation of an update_* routine of the scheduler                  *)
(***************************************************************************)
\* The attribute rows of the tracked project before the invocation.
AllKeys == UNION {KeysOf(TaskTypes[j]) : j \in Jobs} \cup {"token_max_supply"}

RowsBefore == {{}} \cup {{<<k, v>> : k \in AllKeys} : v \in Vals}

\* RoutineWrites with the Err arm writing 0 under the routine's keys.
RoutineWritesZeroOnErr(tt, env, v, out) ==
    IF out = "Ok" THEN AttrWrites(tt, env, v)
    ELSE {<<k, 0>> : k \in KeysOf(tt)}

\* The update_project_attribute calls of an update_* routine: those of its
\* Ok arm; the Err arm only logs.
RoutineWrites(tt, env, v, out) ==
    IF out = "Ok" THEN AttrWrites(tt, env, v) ELSE {}

RoutineInit ==
    /\ ukind \in {TaskTypes[j] : j \in Jobs}
    /\ ubefore \in RowsBefore
    /\ uafter = ubefore
    /\ uout = "none"

RoutineIdle ==
    /\ ukind = TaskTypes[1]
    /\ ubefore = {}
    /\ uafter = {}
    /\ uout = "idle"

\* update_*: the aggregation routine is awaited, then each value is upserted
\* (a failing upsert is logged and skipped). A panic of the aggregation
\* routine unwinds through the routine.
RoutineRun ==
    /\ uout = "none"
    /\ \E env \in Envs(ukind), v \in Vals,
          dbFails \in DbFailChoices(KeysOf(ukind)) :
        LET out == RoutineOutcome(ukind, env)
            calls == RoutineWrites(ukind, env, v, out)
            ws == {w \in calls : w[1] \notin dbFails}
        IN /\ (out # "Ok") => (dbFails = {} /\ v = 1)
           /\ uafter' = Upsert(ubefore, ws)
           /\ uout' = out
    /\ UNCHANGED <<ukind, ubefore, urest>>

(***************************************************************************)
(* Max supply in calculate_market_cap: Project::get_int                    *)
(***************************************************************************)
\* Scaled width of i32 (32 in the source): half of the width of i64.
I32Bits == IntBits \div 2

\* The prices explored.
PriceSamples == {Rat(1, 2), Rat(1, 1), Rat(3, 1)}

\* Value::as_i64: Some(i) for an integer that fits i64, None otherwise.
as_i64(v) ==
    IF v[1] = "number" /\ v[2] = "NegInt" THEN <<v[3]>>
    ELSE IF v[1] = "number" /\ v[2] = "PosInt" /\ v[3] <= I64Max THEN <<v[3]>>
    ELSE <<>>

\* `i as i32`: the low bits of i, as a signed integer.
AsI32(i) == ((i + 2 ^ (I32Bits - 1)) % (2 ^ I32Bits)) - 2 ^ (I32Bits - 1)

\* Project::get_int on the attribute (None when the project has none):
\* as_i64, then the cast to i32.
get_int(attr) ==
    IF attr = <<>> \/ as_i64(attr[1]) = <<>> THEN <<>>
    ELSE <<AsI32(as_i64(attr[1])[1])>>

\* The attribute token_max_supply of the project read by
\* get_project_by_address, for a row holding the value v.
ReadAttr(v) == <<parse_value(to_string(v), get_value_type(v))>>

\* fully_diluted of calculate_market_cap.
FullyDiluted(price, attr) ==
    IF get_int(attr) = <<>> THEN Zero
    ELSE RatMul(price, Rat(get_int(attr)[1], 1))

MaxSupplyInit ==
    /\ xval \in {<<>>} \cup {<<v>> : v \in ScalarValues}
    /\ xprice \in PriceSamples
    /\ xfd = Zero
    /\ xpc = "start"

MaxSupplyIdle ==
    /\ xval = <<>>
    /\ xprice = Rat(1, 1)
    /\ xfd = Zero
    /\ xpc = "done"

\* calculate_market_cap, from the project read to fully_diluted, for a token
\* whose price resolved.
MaxSupplyCompute ==
    /\ xpc = "start"
    /\ xfd' = FullyDiluted(xprice, IF xval = <<>> THEN <<>> ELSE ReadAttr(xval[1]))
    /\ xpc' = "done"
    /\ UNCHANGED <<xval, xprice, xrest>>

(***************************************************************************)
(* calculate_trading_volume: the page tasks of one batch and the shared    *)
(* accumulator coin_volumes                                                *)
(***************************************************************************)
\* Bounds: the page tasks of the batch (250 in the source) and the coin
\* activities a page holds before its first old one.
NumPageTasks == 2
MaxRecs == 2

PageTasks == 1 .. NumPageTasks
CoinTypes == {"A", "B"}

\* The activities of a page, newest first: all of one coin type, or of the
\* two in turn; the i-th has the amount i.
ActivitiesOf(n, mixed) ==
    [i \in 1 .. n |->
        [token |-> IF mixed /\ i % 2 = 0 THEN "B" ELSE "A", amount |-> i]]

PageChoices ==
    {ActivitiesOf(n, mixed) : n \in 0 .. MaxRecs, mixed \in BOOLEAN}

\* coin_volumes.lock() without mutual exclusion.
LockFreeAlways(holder) == TRUE

\* coin_volumes.lock().await completes: no task holds the guard.
LockFree(holder) == holder = 0

AccInit ==
    /\ vpage \in [PageTasks -> PageChoices]
    /\ vpc = [p \in PageTasks |-> "fetch"]
    /\ vidx = [p \in PageTasks |-> 1]
    /\ vtmp = [p \in PageTasks |-> 0]
    /\ vlock = 0
    /\ vacc = [t \in CoinTypes |-> 0]

AccIdle ==
    /\ vpage = [p \in PageTasks |-> <<>>]
    /\ vpc = [p \in PageTasks |-> "done"]
    /\ vidx = [p \in PageTasks |-> 1]
    /\ vtmp = [p \in PageTasks |-> 0]
    /\ vlock = 0
    /\ vacc = [t \in CoinTypes |-> 0]

\* A page task: the response of its query arrives, or the query fails and
\* the task returns Err having added nothing.
AccFetch(p) ==
    /\ vpc[p] = "fetch"
    /\ \E ok \in BOOLEAN :
        /\ vpc' = [vpc EXCEPT ![p] = IF ok THEN "scan" ELSE "done"]
        /\ vpage' = [vpage EXCEPT ![p] = IF ok THEN @ ELSE <<>>]
    /\ UNCHANGED <<vidx, vtmp, vlock, vacc, vrest>>

\* The task takes the lock for its next activity and reads the entry of the
\* coin type (0 when absent).
AccLock(p) ==
    /\ vpc[p] = "scan"
    /\ vidx[p] <= Len(vpage[p])
    /\ LockFree(vlock)
    /\ vlock' = p
    /\ vtmp' = [vtmp EXCEPT ![p] = vacc[vpage[p][vidx[p]].token]]
    /\ vpc' = [vpc EXCEPT ![p] = "locked"]
    /\ UNCHANGED <<vpage, vidx, vacc, vrest>>

\* The task writes the entry raised by the amount; the guard is dropped at
\* the end of the match arm.
AccAdd(p) ==
    /\ vpc[p] = "locked"
    /\ vacc' = [vacc EXCEPT ![vpage[p][vidx[p]].token] =
                    vtmp[p] + vpage[p][vidx[p]].amount]
    /\ vlock' = IF vlock = p THEN 0 ELSE vlock
    /\ vidx' = [vidx EXCEPT ![p] = @ + 1]
    /\ vpc' = [vpc EXCEPT ![p] = "scan"]
    /\ UNCHANGED <<vpage, vtmp, vrest>>

\* The task has scanned its page and returns.
AccEnd(p) ==
    /\ vpc[p] = "scan"
    /\ vidx[p] > Len(vpage[p])
    /\ vpc' = [vpc EXCEPT ![p] = "done"]
    /\ UNCHANGED <<vpage, vidx, vtmp, vlock, vacc, vrest>>

(***************************************************************************)
(* update_project_handler against a scheduler job's upsert                 *)
(***************************************************************************)
\* The rows of the project before the request and the upsert: none, or the
\* job's key and another key, each with some value.
RowsAtStart(k) ==
    {{}} \cup {{<<k, v>>, <<"token_max_supply", v>>} : v \in Vals}

\* The attributes of the request body: absent, or the attributes the
\* requester read earlier with token_max_supply changed.
BodyAttributes(rows, body) ==
    IF body = "none" THEN <<>>
    ELSE <<{r \in rows : r[1] # "token_max_supply"}
              \cup {<<"token_max_supply", MaxVal>>}>>

\* update_project: in one transaction, DELETE every attribute row of the
\* project, then INSERT those of `project.attributes`.
update_project(rows, attributes) == attributes

UpdateInit ==
    /\ qkey \in StoreKeys
    /\ qjob \in Vals
    /\ qbody \in {"none", "some"}
    /\ qtable \in RowsAtStart(qkey)
    /\ qsent = qtable
    /\ qproject = {}
    /\ qhpc = "start"
    /\ qjpc = "start"

UpdateIdle ==
    /\ qkey = "trading_volume"
    /\ qjob = 1
    /\ qbody = "none"
    /\ qtable = {}
    /\ qsent = {}
    /\ qproject = {}
    /\ qhpc = "done"
    /\ qjpc = "done"

\* update_project_handler: get_project_by_id reads the project with its
\* attributes; the body's attributes, when present, replace them.
HandlerRead ==
    /\ qhpc = "start"
    /\ qproject' = IF BodyAttributes(qsent, qbody) = <<>> THEN qtable
                   ELSE BodyAttributes(qsent, qbody)[1]
    /\ qhpc' = "read"
    /\ UNCHANGED <<qkey, qjob, qbody, qtable, qsent, qjpc, qrest>>

\* update_project_handler: update_project(&project) commits.
HandlerWrite ==
    /\ qhpc = "read"
    /\ qtable' = update_project(qtable, qproject)
    /\ qhpc' = "done"
    /\ UNCHANGED <<qkey, qjob, qbody, qsent, qproject, qjpc, qrest>>

\* The scheduler job: update_project_attribute(project_id, key, value).
JobUpsert ==
    /\ qjpc = "start"
    /\ qtable' = update_project_attribute(qtable, qkey, qjob)
    /\ qjpc' = "done"
    /\ UNCHANGED <<qkey, qjob, qbody, qsent, qproject, qhpc, qrest>>

AggNext == VolumeBatch \/ DailyBatch \/ WeeklyBatch \/ FeeBatch

SpecAggInit ==
    AggInit /\ HoldersIdle /\ SchedIdle /\ PriceIdle /\ TvlIdle /\ StoreIdle
    /\ CodecIdle
    /\ ClockIdle
    /\ RoutineIdle
    /\ MaxSupplyIdle
    /\ AccIdle
    /\ UpdateIdle

SpecAgg == SpecAggInit /\ [][AggNext]_vars

\* Every remote call returns, so a batch that can be issued is joined.
FairSpecAgg == SpecAgg /\ WF_vars(AggNext)

HoldersNext == HolderExit \/ HolderRound

SpecHoldersInit ==
    HoldersInit /\ AggIdle /\ SchedIdle /\ PriceIdle /\ TvlIdle /\ StoreIdle
    /\ CodecIdle
    /\ ClockIdle
    /\ RoutineIdle
    /\ MaxSupplyIdle
    /\ AccIdle
    /\ UpdateIdle

SpecHolders == SpecHoldersInit /\ [][HoldersNext]_vars

Init ==
    SchedInit /\ HoldersIdle /\ AggIdle /\ PriceIdle /\ TvlIdle /\ StoreIdle
    /\ CodecIdle
    /\ ClockIdle
    /\ RoutineIdle
    /\ MaxSupplyIdle
    /\ AccIdle
    /\ UpdateIdle

Next ==
    \/ SpawnTask
    \/ \E j \in Jobs : TickStart(j)
    \/ \E j \in Jobs : TickFinish(j)

Spec == Init /\ [][Next]_vars

PriceNext ==
    \/ PriceStable
    \/ PriceDecimals
    \/ \E s \in Stables : PriceProbe(s)
    \/ PriceSelect

SpecPriceInit ==
    PriceInit /\ HoldersIdle /\ AggIdle /\ SchedIdle /\ TvlIdle /\ StoreIdle
    /\ CodecIdle
    /\ ClockIdle
    /\ RoutineIdle
    /\ MaxSupplyIdle
    /\ AccIdle
    /\ UpdateIdle

SpecPrice == SpecPriceInit /\ [][PriceNext]_vars

TvlNext == TvlFetch \/ TvlTasks \/ TvlSum

SpecTvlInit ==
    TvlInit /\ HoldersIdle /\ AggIdle /\ SchedIdle /\ PriceIdle /\ StoreIdle
    /\ CodecIdle
    /\ ClockIdle
    /\ RoutineIdle
    /\ MaxSupplyIdle
    /\ AccIdle
    /\ UpdateIdle

SpecTvl == SpecTvlInit /\ [][TvlNext]_vars

StoreNext == StoreUpdate \/ StoreSet

SpecStoreInit ==
    StoreInit /\ HoldersIdle /\ AggIdle /\ SchedIdle /\ PriceIdle /\ TvlIdle
    /\ CodecIdle
    /\ ClockIdle
    /\ RoutineIdle
    /\ MaxSupplyIdle
    /\ AccIdle
    /\ UpdateIdle

SpecStore == SpecStoreInit /\ [][StoreNext]_vars

CodecNext == CodecStore \/ CodecRead

SpecCodecInit ==
    CodecInit /\ HoldersIdle /\ AggIdle /\ SchedIdle /\ PriceIdle /\ TvlIdle
    /\ StoreIdle
    /\ ClockIdle
    /\ RoutineIdle
    /\ MaxSupplyIdle
    /\ AccIdle
    /\ UpdateIdle

SpecCodec == SpecCodecInit /\ [][CodecNext]_vars

ClockNext ==
    \/ ClockSpawn
    \/ \E j \in Jobs : ClockTick(j)
    \/ \E j \in Jobs : ClockFinish(j)
    \/ ClockAdvance

SpecClockInit ==
    ClockInit /\ HoldersIdle /\ AggIdle /\ SchedIdle /\ PriceIdle /\ TvlIdle
    /\ StoreIdle /\ CodecIdle
    /\ RoutineIdle
    /\ MaxSupplyIdle
    /\ AccIdle
    /\ UpdateIdle

SpecClock == SpecClockInit /\ [][ClockNext]_vars

HoldersAnyNext == HolderExit \/ HolderRoundAny

SpecHoldersAnyInit ==
    HoldersAnyInit /\ AggIdle /\ SchedIdle /\ PriceIdle /\ TvlIdle /\ StoreIdle
    /\ CodecIdle
    /\ ClockIdle
    /\ RoutineIdle
    /\ MaxSupplyIdle
    /\ AccIdle
    /\ UpdateIdle

SpecHoldersAny == SpecHoldersAnyInit /\ [][HoldersAnyNext]_vars

\* Every probe returns, so a round that can be issued is joined and scanned.
FairSpecHoldersAny == SpecHoldersAny /\ WF_vars(HoldersAnyNext)

RoutineNext == RoutineRun

SpecRoutineInit ==
    RoutineInit /\ HoldersIdle /\ AggIdle /\ SchedIdle /\ PriceIdle /\ TvlIdle
    /\ StoreIdle /\ CodecIdle /\ ClockIdle
    /\ MaxSupplyIdle
    /\ AccIdle
    /\ UpdateIdle

SpecRoutine == SpecRoutineInit /\ [][RoutineNext]_vars

MaxSupplyNext == MaxSupplyCompute

SpecMaxSupplyInit ==
    MaxSupplyInit /\ HoldersIdle /\ AggIdle /\ SchedIdle /\ PriceIdle
    /\ TvlIdle /\ StoreIdle /\ CodecIdle /\ ClockIdle /\ RoutineIdle
    /\ AccIdle
    /\ UpdateIdle

SpecMaxSupply == SpecMaxSupplyInit /\ [][MaxSupplyNext]_vars

UpsertTextNext == CodecUpsert \/ CodecRead

SpecUpsertTextInit ==
    UpsertTextInit /\ HoldersIdle /\ AggIdle /\ SchedIdle /\ PriceIdle
    /\ TvlIdle /\ StoreIdle /\ ClockIdle /\ RoutineIdle /\ MaxSupplyIdle
    /\ AccIdle
    /\ UpdateIdle

SpecUpsertText == SpecUpsertTextInit /\ [][UpsertTextNext]_vars

AccNext ==
    \/ \E p \in PageTasks : AccFetch(p)
    \/ \E p \in PageTasks : AccLock(p)
    \/ \E p \in PageTasks : AccAdd(p)
    \/ \E p \in PageTasks : AccEnd(p)

SpecAccInit ==
    AccInit /\ HoldersIdle /\ AggIdle /\ SchedIdle /\ PriceIdle /\ TvlIdle
    /\ StoreIdle /\ CodecIdle /\ ClockIdle /\ RoutineIdle /\ MaxSupplyIdle
    /\ UpdateIdle

SpecAcc == SpecAccInit /\ [][AccNext]_vars

UpdateNext == HandlerRead \/ HandlerWrite \/ JobUpsert

SpecUpdateInit ==
    UpdateInit /\ HoldersIdle /\ AggIdle /\ SchedIdle /\ PriceIdle /\ TvlIdle
    /\ StoreIdle /\ CodecIdle /\ ClockIdle /\ RoutineIdle /\ MaxSupplyIdle
    /\ AccIdle

SpecUpdate == SpecUpdateInit /\ [][UpdateNext]_vars

Abs(x) == IF x < 0 THEN 0 - x ELSE x

HolderClean == hfault = "none"
HolderReturnedOk == hpc = "done" /\ hret.ok

\* C8: if any probe of a round fails (transport error, data-less response,
\* failed task), the call returns that error and never a count or a further
\* round.
C8_AnyProbeFailureAborts ==
    (hfault # "none") => (hpc = "done" /\ ~hret.ok)

\* C9 (as stated): against a static source with H holders the value returned
\* differs from H by at most the segment width of the last round, for every H.
C9_EstimateWithinSegment_AnyH ==
    (HolderReturnedOk /\ HolderClean) => (Abs(hret.value - H) <= segment)

\* C9 (amended): against a static source with H holders, H at most
\* 1,000,000,099 (the assumed upper bound 10^9 plus less than one page), the
\* value returned differs from H by at most the segment width of the last round.
C9_EstimateWithinSegment ==
    (HolderReturnedOk /\ HolderClean /\ H <= InitRight + PageSize - 1)
        => (Abs(hret.value - H) <= segment)

\* C9 witness: a fault-free call on a collection within the assumed bound
\* that returned after narrowing the interval down to segments of 10.
C9_Witness ==
    /\ HolderReturnedOk /\ HolderClean
    /\ H <= InitRight + PageSize - 1
    /\ segment = Segments
    /\ Abs(hret.value - H) <= segment

\* C10 (as stated): one call on a static source issues at most
\* 10 * ceil(log10(10^9 / 100)) = 70 probe queries.
C10_AtMost70Probes ==
    HolderClean => (probes <= Segments * 7)

\* C10 (amended): one call issues at most 90 probe queries: 10 per round, over
\* at most 9 rounds (segments 10^8 down to 1).
C10_AtMost90Probes ==
    probes <= Segments * 9

\* C10 witness: a fault-free call that returned after exactly 90 probes.
C10_Witness ==
    HolderReturnedOk /\ HolderClean /\ probes = Segments * 9

\* C11: against a static source with exactly H holders, whenever the call
\* returns through the partial-page rule (the first probe, in offset order,
\* whose count is between 1 and 99), the value returned, offset + count, is H.
C11_PartialPageExact ==
    (hpc = "done" /\ hret.ok /\ hret.how = "partial") => (hret.value = H)

\* C11 witness: the call on a source of 237 holders returned 237 through the
\* partial-page rule, after narrowing down over several rounds.
C11_Witness ==
    /\ H = 237
    /\ hpc = "done" /\ hret.ok /\ hret.how = "partial"
    /\ hret.value = 237
    /\ probes > Segments

(***************************************************************************)
(* Claims about the windowed aggregations                                  *)
(***************************************************************************)
LoopKinds == {"volume", "daily", "weekly"}

\* The window of the claims: today for daily users, the last 7 days for
\* weekly users and trading volume.
AtOrAfterCutoff(kind, rec) ==
    IF kind = "daily" THEN rec.age = 0 ELSE rec.age <= WindowDays

RECURSIVE InWindow(_, _, _)
InWindow(kind, src, i) ==
    IF i > Len(src) THEN <<>>
    ELSE (IF AtOrAfterCutoff(kind, src[i]) THEN <<src[i]>> ELSE <<>>)
            \o InWindow(kind, src, i + 1)

NumInWindow == Len(InWindow(akind, asrc, 1))
NumOlder == Len(asrc) - NumInWindow

ExpectedValue ==
    IF akind = "volume"
    THEN [t \in Tokens |-> SumToken(InWindow(akind, asrc, 1), t, 1)]
    ELSE Cardinality(SendersOf(InWindow(akind, asrc, 1)))

\* Offset after the batch that contains the first older record.
BoundaryBatchEnd ==
    ((NumInWindow \div BatchSize(akind)) + 1) * BatchSize(akind)

\* C3: every aggregation that starts (the Running phase of a tick) eventually
\* returns to its caller, given that every remote call returns.
C3_TickCompletes == (apc = "run") ~> (apc = "done")

\* C4: each windowed aggregation (trading volume, daily users, weekly users)
\* stops at the record ceiling: it never issues a batch once it has requested
\* the ceiling's number of records.
C4_ScanStopsAtCeiling ==
    (akind \in LoopKinds /\ apc = "run") => (aoffset < Ceiling)

\* C5: if any page fetch of an aggregation failed, the aggregation returns an
\* error, never a value.
C5_AnyPageFailureFails ==
    (apc = "done" /\ afailed) => ~aret.ok

C7_ReturnsExactFlag ==
    (apc = "done" /\ aret.ok)
        => /\ "exact" \in DOMAIN aret
           /\ (Len(asrc) < Ceiling) => aret.exact

(***************************************************************************)
(* Claims about the scheduler                                              *)
(***************************************************************************)
\* C1: whatever way a tick's computation fails, the job loop stays alive: no
\* outcome of a tick ends the job.
C1_JobNeverDies == \A j \in Jobs : jpc[j] # "dead"

\* C2: at no time are two invocations of a job's update routine in progress.
C2_NoOverlappingInvocations == \A j \in Jobs : jcalls[j] <= 1

\* C2 witness: a job is running an invocation after an earlier invocation of
\* the same job has returned with its attribute writes done.
C2_Witness ==
    \E j \in Jobs :
        /\ jpc[j] = "running"
        /\ jcalls[j] = 1
        /\ KeysOf(TaskTypes[j]) \subseteq AttrKeys(attrs)

(***************************************************************************)
(* Claims about the price oracle                                           *)
(***************************************************************************)
\* The price the pool against stablecoin s gives for the token.
LedgerPrice(s) ==
    RatMul(Rat(lpools[s].stb, lpools[s].tok),
           Powi10(pdecimals[1] - DECIMALS_USD))

PriceSelected ==
    ppc = "done" /\ ptoken \notin Stables /\ pdecimals # <<>>

\* C12: for a non-stablecoin token whose decimals lookup succeeded, the
\* result follows a fixed priority: the price of the USDC pool alone when the
\* USDC probe succeeded, whatever the USDT probe returned; otherwise the price
\* of the USDT pool alone when that probe succeeded; None when both failed.
C12_UsdcThenUsdt ==
    PriceSelected =>
        pret = IF pbal[USDC].val # <<>>
               THEN <<[price |-> LedgerPrice(USDC), decimals |-> pdecimals[1]]>>
               ELSE IF pbal[USDT].val # <<>>
               THEN <<[price |-> LedgerPrice(USDT), decimals |-> pdecimals[1]]>>
               ELSE <<>>

\* C12 witness: both probes succeeded on pools giving different prices and
\* the price returned is that of the USDC pool.
C12_Witness ==
    /\ PriceSelected
    /\ pbal[USDC].val # <<>> /\ pbal[USDT].val # <<>>
    /\ LedgerPrice(USDC) # LedgerPrice(USDT)
    /\ pret = <<[price |-> LedgerPrice(USDC), decimals |-> pdecimals[1]]>>

\* C13: for a reference stablecoin the call returns (1.0, 6) and issues no
\* remote call at all.
C13_StablecoinShortCircuit ==
    (ppc = "done" /\ ptoken \in Stables) =>
        /\ pret = <<[price |-> [num |-> 1, den |-> 1], decimals |-> 6]>>
        /\ pcalls = 0
        /\ \A s \in Stables : ~pbal[s].done

\* C13 witness: the call for USDT has returned.
C13_Witness ==
    /\ ppc = "done" /\ ptoken = USDT
    /\ pret # <<>> /\ pret[1].decimals = DECIMALS_USD
    /\ pcalls = 0

\* C14: get_balances(token, stablecoin) returns (reserve of token, reserve of
\* stablecoin) whichever order the pool is keyed in; it queries the reversed
\* order only after the direct-order query failed, issues at most two
\* queries, and returns None only when both orders failed.
C14_BalancesEitherOrder ==
    \A s \in Stables :
        pbal[s].done =>
            LET q == pbal[s].queries IN
            /\ Len(q) \in {1, 2}
            /\ q[1].order = "direct"
            /\ (Len(q) = 2) => (~q[1].ok /\ q[2].order = "reversed")
            /\ (pbal[s].val # <<>>) =>
                    (pbal[s].val = << <<lpools[s].tok, lpools[s].stb>> >>)
            /\ (pbal[s].val = <<>>) <=> (\A i \in 1 .. Len(q) : ~q[i].ok)
            /\ (pbal[s].val = <<>>) => (Len(q) = 2)

\* C14 witness: a pool keyed <stablecoin, token> with unequal balances was
\* found by the second query, and the pair returned is (token, stablecoin).
C14_Witness ==
    \E s \in Stables :
        /\ pbal[s].done
        /\ lpools[s].order = "reversed"
        /\ lpools[s].tok # lpools[s].stb
        /\ Len(pbal[s].queries) = 2
        /\ pbal[s].val = << <<lpools[s].tok, lpools[s].stb>> >>

(***************************************************************************)
(* Claims about the total value locked                                     *)
(***************************************************************************)
\* The tokens of the reserves map whose price lookup succeeded.
Priced ==
    {t \in DOMAIN treserves : ~touts[t].join /\ touts[t].quote # <<>>}

\* price * reserve / 10^decimals of a priced token.
UsdValue(t) ==
    RatMul(touts[t].quote[1].price,
           Rat(treserves[t], Pow10(touts[t].quote[1].decimals)))

RECURSIVE SumUsd(_)
SumUsd(toks) ==
    IF toks = {} THEN [num |-> 0, den |-> 1]
    ELSE LET t == CHOOSE x \in toks : TRUE
         IN RatAdd(SumUsd(toks \ {t}), UsdValue(t))

\* C15: a token whose price lookup fails (None, or its task fails)
\* contributes 0 and the result is the sum of the USD values of all the other
\* tokens: once the tasks have run the call returns Ok.
C15_FailedLookupCountsZero ==
    (tpc = "done" /\ DOMAIN touts # {}) =>
        /\ tret.ok
        /\ tret.value = SumUsd(Priced)

\* C15 witness: of two non-stablecoin tokens one was priced and the lookup
\* of the other failed; the total returned is positive.
C15_Witness ==
    /\ tpc = "done" /\ tret.ok
    /\ {"A", "B"} \subseteq DOMAIN treserves
    /\ "A" \in Priced /\ "B" \notin Priced
    /\ tret.value = SumUsd(Priced)
    /\ tret.value.num > 0

\* Scenario A: the account holds the one pool <TokenA, USDC>, whose resource
\* reports reserve_x = 1000 * 10^ex and reserve_y = 500 * 10^ey, and the
\* oracle resolved TokenA at 0.5.
ScenarioA(ex, ey) ==
    /\ tpc = "done" /\ tret.ok
    /\ tres[<<"A", USDC>>] = [present |-> TRUE, ex |-> ex, ey |-> ey]
    /\ \A p \in PoolPairs \ {<<"A", USDC>>} : ~tres[p].present
    /\ "A" \in Priced
    /\ touts["A"].quote[1].price = [num |-> 1, den |-> 2]

\* C16 (as stated): when the ledger reports reserves {TokenA: 1000, USDC: 500}
\* and TokenA resolves at 0.5, the total is 1000*0.5 + 500*1.0 = 1000.0.
C16_ScenarioA_RawAmounts ==
    ScenarioA(0, 0) => (tret.value = [num |-> 1000, den |-> 1])

\* C16 (amended): in that scenario the total is
\* 1000 * 10^ex * 0.5 / 10^d + 500 * 10^ey * 1.0 / 10^6, d the decimals of
\* TokenA; it is 1000.0 when the reserves reported are the raw amounts of 1000
\* TokenA and 500 USDC (ex = d, ey = 6).
C16_ScenarioA_Scaled ==
    \A ex \in ReserveExps, ey \in ReserveExps :
        ScenarioA(ex, ey) =>
            LET d == touts["A"].quote[1].decimals IN
            /\ tret.value =
                    RatAdd(RatMul([num |-> 1, den |-> 2],
                                  Rat(1000 * Pow10(ex), Pow10(d))),
                           Rat(500 * Pow10(ey), Pow10(DECIMALS_USD)))
            /\ (ex = d /\ ey = DECIMALS_USD) =>
                    (tret.value = [num |-> 1000, den |-> 1])

\* C16 witness: the scenario with raw reserves of 1000 TokenA (6 decimals) and
\* 500 USDC returned 1000.0.
C16_Witness ==
    /\ ScenarioA(DECIMALS_USD, DECIMALS_USD)
    /\ touts["A"].quote[1].decimals = DECIMALS_USD
    /\ tret.value = [num |-> 1000, den |-> 1]

(***************************************************************************)
(* Claims about calculate_market_cap and the attribute store               *)
(***************************************************************************)
\* C17: when the price and the circulating supply are resolved,
\* calculate_market_cap returns Ok with fully_diluted = 0 in every case where
\* the max supply cannot be obtained (attribute absent, project row absent,
\* database lookup failing): never an error or a crash.
C17_MaxSupplyOptional ==
    (mcall.called /\ mcall.resolved /\ mcall.max # "present")
        => (mcall.out = "Ok" /\ mcall.fully_diluted = 0)

OneEntryPerKey(rows) ==
    \A r1 \in rows, r2 \in rows : (r1[1] = r2[1]) => (r1 = r2)

SeqRows(as) == {as[i] : i \in 1 .. Len(as)}

\* C18: after any sequence of update_project_attribute calls the bag holds at
\* most one entry per key, carrying the value of the latest call for that
\* key; applying the same call a second time leaves the bag as after the
\* first. Likewise for Project::set_attribute on the attributes vector.
C18_UpsertLastWriteWins ==
    /\ OneEntryPerKey(btable)
    /\ AttrKeys(btable) = DOMAIN blast
    /\ \A k \in DOMAIN blast : <<k, blast[k].value>> \in btable
    /\ \A k \in StoreKeys, v \in Vals :
        update_project_attribute(update_project_attribute(btable, k, v), k, v)
            = update_project_attribute(btable, k, v)
    /\ Cardinality(SeqRows(pattrs)) = Len(pattrs)
    /\ OneEntryPerKey(SeqRows(pattrs))
    /\ \A k \in DOMAIN plast : <<k, plast[k].value>> \in SeqRows(pattrs)
    /\ \A k \in StoreKeys, v \in Vals :
        set_attribute(set_attribute(pattrs, k, v), k, v)
            = set_attribute(pattrs, k, v)

\* C18 witness: a key was upserted by every call of the behaviour and the
\* table holds the one row of the latest call.
C18_Witness ==
    \E k \in DOMAIN blast :
        /\ blast[k].n = MaxCalls
        /\ blast[k].value = MaxVal
        /\ btable = {<<k, MaxVal>>}

\* C20: the sets of attribute keys written by the eight jobs are pairwise
\* disjoint: for every key at most one job kind ever issues a write of it.
C20_DisjointKeys ==
    /\ \A k \in DOMAIN wlog : Cardinality(wlog[k]) <= 1
    /\ \A i \in Jobs, j \in Jobs :
        (i # j) => (KeysOf(TaskTypes[i]) \cap KeysOf(TaskTypes[j]) = {})

\* C20 witness: two jobs of different kinds have both written their keys.
C20_Witness ==
    \E k1 \in DOMAIN wlog, k2 \in DOMAIN wlog :
        /\ wlog[k1] # wlog[k2]
        /\ {k1, k2} \subseteq AttrKeys(attrs)

\* C19: round trip of stored attributes: every attribute value v, of every
\* kind, stored as the pair (v.to_string(), get_value_type(v)) and read back
\* with parse_value, yields a value equal to v.
C19_StoredValueRoundTrip ==
    (dpc = "read") => (dback = dval)

(***************************************************************************)
(* Start-up stagger and independence of the jobs                           *)
(***************************************************************************)
\* C21: spawn_tasks starts the jobs once each, in list order, 120 seconds
\* apart: the jobs started are always the first `cspawned` of the list, and
\* the i-th job of the list (counting from 0) performs its first tick
\* 120 * i seconds after the first job does, so no two first ticks coincide.
C21_StaggeredFirstTicks ==
    /\ \A j \in Jobs : (cst[j] # "unspawned") <=> (j <= cspawned)
    /\ \A j \in Jobs : first[j] # NoTime => first[j] = 120 * (j - 1)
    /\ \A j, k \in Jobs :
          (j # k /\ first[j] # NoTime /\ first[k] # NoTime)
              => first[j] # first[k]

\* All eight jobs have performed their first tick.
C21_Witness ==
    /\ cspawned = Len(TaskTypes)
    /\ \A j \in Jobs : first[j] # NoTime
    /\ first[Len(TaskTypes)] = 840

HolderLoopSafe ==
    hpc = "loop" =>
        /\ left >= 1
        /\ right >= 0
        /\ segment > 0 => right - left + 1 <= segment
        /\ left <= right =>
              LET seg == (right - left + 1) \div Segments
              IN /\ right - left >= 0
                 /\ right - seg >= 0
                 /\ left + 0 * seg >= 1

\* C23: for every sequence of probe answers in 0 .. 100, consistent with a
\* static collection or not, the search returns, and between rounds left >= 1,
\* the interval is at most one segment of the previous round wide, and no
\* update of left or right underflows.
C23_SearchTerminates == []HolderLoopSafe /\ <>(hpc = "done")

\* Answers no static collection gives: the page at offset 90000001 is full in
\* the second round and empty in the third; the search has returned.
C23_Witness ==
    /\ hpc = "done"
    /\ hret = [ok |-> TRUE, value |-> 90000001, how |-> "loop"]
    /\ right = 90000000
    /\ probes = 3 * Segments

(***************************************************************************)
(* Frame of a failed tick                                                  *)
(***************************************************************************)
\* C24: an update routine whose aggregation routine returned an error leaves
\* every attribute row of the project as it was, whatever the job kind.
C24_FailedTickWritesNothing == (uout = "Err") => (uafter = ubefore)

\* A kind whose aggregation routine can return an error did so, with
\* attribute rows present under the keys it writes on success.
C24_Witness ==
    /\ uout = "Err"
    /\ ukind = "TokenTerminalData"
    /\ \E r \in ubefore : r[1] = "fees_30d"

(***************************************************************************)
(* Boundary page of the swap-fee aggregation                               *)
(***************************************************************************)
\* The swap events newer than the cutoff of the fee window.
RECURSIVE FeeWindow(_, _)
FeeWindow(src, i) ==
    IF i > Len(src) THEN <<>>
    ELSE (IF src[i].age < FeeDays THEN <<src[i]>> ELSE <<>>)
            \o FeeWindow(src, i + 1)

\* C25: when no page query fails and the window lies within the pages
\* requested, the fee base accumulated by get_fee_within_n_days_pancake is,
\* per token, the sum of the input amounts of exactly the swap events inside
\* the window: the page holding the window boundary contributes its events
\* newer than the cutoff and none older.
C25_BoundaryPageExact ==
    (/\ akind = "fees" /\ apc = "done" /\ ~afailed
     /\ Len(FeeWindow(asrc, 1)) <= BatchSize("fees"))
        => /\ aret.ok
           /\ aret.value =
                 [t \in Tokens |-> SumToken(FeeWindow(asrc, 1), t, 1)]

(***************************************************************************)
(* Page offsets of the windowed aggregations                               *)
(***************************************************************************)
\* C26: the offsets an aggregation has requested are, in dispatch order,
\* 0, PageLimit, 2 * PageLimit, ...: each once, consecutive pages neither
\* overlapping nor leaving a gap, whatever pages fail; they come in whole
\* batches, and the next batch starts where the previous one ended,
\* PageLimit * FanOut records after its start.
C26_OffsetsFixedBeforeDispatch ==
    /\ areq = [i \in 1 .. Len(areq) |-> (i - 1) * PageLimit]
    /\ Len(areq) % FanOut(akind) = 0
    /\ aoffset < OffsetCap => aoffset = Len(areq) * PageLimit
    /\ aoffset < OffsetCap => aoffset % BatchSize(akind) = 0

\* A weekly scan that issued a second batch, with a failed page in between.
C26_Witness ==
    /\ akind = "weekly"
    /\ afailed
    /\ Len(areq) = 2 * FanOut("weekly")
    /\ areq[FanOut("weekly") + 1] = BatchSize("weekly")

(***************************************************************************)
(* Max supply on the way to the market cap                                 *)
(***************************************************************************)
\* C27: for every integer stored under token_max_supply (a value of the
\* signed 64-bit range, stored with the type integer), fully_diluted is the
\* price times that same integer.
C27_MaxSupplyNotTruncated ==
    (/\ xpc = "done" /\ xval # <<>>
     /\ get_value_type(xval[1]) = "integer")
        => xfd = RatMul(xprice, Rat(xval[1][3], 1))

(***************************************************************************)
(* Read-back of a text written by a scheduler job                          *)
(***************************************************************************)
\* C28: a string a job wrote through update_project_attribute is read back
\* by get_project_attributes as the JSON string with the same text, whatever
\* the text looks like.
C28_ScrapedTextReadsBackAsString == (dpc = "read") => (dback = dval)

(***************************************************************************)
(* The shared accumulator of a trading-volume batch                        *)
(***************************************************************************)
\* The amount the tasks p .. NumPageTasks added for the coin type t.
RECURSIVE AddedFor(_, _)
AddedFor(t, p) ==
    IF p > NumPageTasks THEN 0
    ELSE SumToken(SubSeq(vpage[p], 1, vidx[p] - 1), t, 1) + AddedFor(t, p + 1)

\* C29: in every interleaving of the page tasks, the lock is held by one task
\* at a time and never by a task waiting for its query, and no addition is
\* lost: whenever the lock is free, and so once all tasks have completed,
\* each coin type's entry is the sum of the amounts added for it.
C29_NoLostAddition ==
    /\ \A p \in PageTasks : (vpc[p] = "locked") <=> (vlock = p)
    /\ \A p \in PageTasks : vpc[p] = "fetch" => vlock # p
    /\ vlock = 0 => \A t \in CoinTypes : vacc[t] = AddedFor(t, 1)

\* Both tasks have completed after adding two amounts each for the same coin
\* type.
C29_Witness ==
    /\ \A p \in PageTasks : vpc[p] = "done" /\ Len(vpage[p]) = 2
    /\ \A p \in PageTasks : \A i \in 1 .. 2 : vpage[p][i].token = "A"
    /\ vacc["A"] = 3 * NumPageTasks

(***************************************************************************)
(* A job's upsert against a concurrent project update                      *)
(***************************************************************************)
\* C30: in every interleaving of update_project_handler, whose request does
\* not change the job's attribute, with the job's update_project_attribute,
\* the value the job wrote is the value stored once both have finished.
C30_UpsertSurvivesUpdate ==
    (qhpc = "done" /\ qjpc = "done") => <<qkey, qjob>> \in qtable

====
